---- MODULE Spec2Model ----
(***************************************************************************)
(* The GPII windows service: the supervisor of the GPII user process       *)
(* (src/src/gpii-process.js), the service shell and its event bus          *)
(* (service.js, second half of src/src/winapi.js) and the token query of   *)
(* src/src/windows.js, as one state machine.  Every handler of the single  *)
(* node event loop is one atomic action; the operating system (console     *)
(* session, processes, the pid file, the clock) is the environment.        *)
(***************************************************************************)
EXTENDS Integers, FiniteSets, Sequences, TLC

(***************************************************************************)
(* Bounds of the model.                                                    *)
(***************************************************************************)
\* process ids the operating system hands out: 1..MaxPid
MaxPid == 2
\* restart timers that may be pending at once
MaxTimers == 2
\* largest value the consecutive-failure count is followed to
MaxRestartCount == 3
\* whole seconds process.hrtime(lastStart) is followed to
MaxSeconds == 21
MaxAttempts == 2
MaxCalls == 2
MaxHandle == 2
MaxConnPid == 3
\* TCP connections followed at once
MaxSockets == 2
\* servers of gpiiConnection.listen that may listen at once
MaxServers == 2

(***************************************************************************)
(* JavaScript values that are not pids, and the pid file's special         *)
(* contents.  They are kept negative so that no pid equals them.           *)
(***************************************************************************)
\* the JavaScript null (gpiiProcess.pid = null, pid = null)
Null == -1
\* the result of parseInt on text that is not a number
NaN == -2
\* a call that ended with an exception instead of a value
Throws == -3
\* the pid file does not exist (fs.readFileSync throws)
Absent == -4
\* the pid file holds text that is not a number
Garbage == -5
\* gpiiProcess.restartCount before its first assignment
Undefined == -6
\* the token value of "no user on the console session"
NoToken == 0
\* the token of the user logged on at the console / of this process
UserToken == 1

\* A running time above this is not a failure to start.
HealthySeconds == 20
\* restartCount above this: no restart is scheduled.
MaxFailedStarts == 2
\* setTimeout(startGPII, restartCount * 10000 + 1000)
DelayStep == 10000
DelayBase == 1000

Pids == 1..MaxPid
FileContents == {Absent, Garbage, 0} \cup Pids
\* The instants of the clock the model visits: the start (a run of under a
\* second), and the seconds from the threshold on.
Instants == {0} \cup (HealthySeconds..MaxSeconds)
\* The sub-events of the sessionchange control code (os-service).
SessionEvents == {"session-logon", "session-logoff", "session-lock"}
\* The control codes the service accepts.
ControlNames == {"start", "stop", "shutdown", "sessionchange"}

\* A control code with the event type the service manager sends with it:
\* a session event for sessionchange, none for the others.
ControlCodes ==
    {ce \in ControlNames \X (SessionEvents \cup {"none"}) :
        (ce[1] = "sessionchange") <=> (ce[2] \in SessionEvents)}

VARIABLES
    status,         \* "init", "started" (service.start ran), "stopped"
    isService,      \* service.isService
    consoleUser,    \* OS: a user is logged on at the console session
    pidFile,        \* OS: content of <APPDATA>\GPII\gpii.pid
    children,       \* OS: live processes this supervisor created
    externals,      \* OS: other live processes
    exited,         \* children that ended, waitForProcessTermination not yet delivered
    pid,            \* gpiiProcess.pid
    startingGPII,   \* gpiiProcess.startingGPII
    inflight,       \* ipc.startProcess promises not yet settled
    sinceStart,     \* process.hrtime(gpiiProcess.lastStart)[0]
    restartCount,   \* gpiiProcess.restartCount
    timers,         \* number of pending setTimeout(startGPII, delay) calls
    scheduled,      \* the delay of the setTimeout call of the step just taken, or Null
    log,            \* what the step just taken logged (service.log, logWarn, logError)
    emitted,        \* what the step just taken emitted on the event bus
    cp,             \* ipc.createPipe: the call in progress (server, pipe, promise)
    clientHandles,  \* OS: client-side pipe handles open in this process
    servers,        \* OS: pipe servers of this process that are listening
    tokens,         \* OS: user token handles open in this process
    closedZero,     \* CloseHandle has been called with 0 or with a closed token
    procToken,      \* the token of the last CreateProcessAsUserW call, or Null
    calls,          \* number of ipc.startProcess calls made
    fnIn,           \* arguments of the function applied last
    fnOut,          \* what it returned
    connectionPid,  \* gpiiConnection.pid
    connSocket,     \* gpiiConnection.socket
    serviceSocket,  \* service.socket
    connServers,    \* OS: servers made by gpiiConnection.listen that listen
    connServer,     \* gpiiConnection.server: "none", "listening", "closed"
    sockets,        \* OS: the TCP connections made to those servers
    sent,           \* what the step just taken sent to the peer
    created,        \* processes created whose startProcess callback has not run
    startedPids,    \* history: the children started-gpii was emitted for
    killed,         \* history: children stopGPII killed, termination not yet handled
    modules         \* service.modules

osVars == <<consoleUser, pidFile, children, externals, exited>>
supVars == <<pid, startingGPII, inflight, sinceStart, restartCount, timers>>
ipcVars == <<cp, clientHandles, servers, tokens, closedZero, procToken, calls>>
fnVars == <<fnIn, fnOut>>
connVars == <<connectionPid, connSocket, serviceSocket, connServers, connServer,
              sockets, sent>>
processVars == <<status, isService, consoleUser, pidFile, children, externals,
                 exited, pid, startingGPII, inflight, sinceStart, restartCount,
                 timers, scheduled, log, emitted>>
lifeVars == <<created, startedPids, killed, modules>>
vars == <<processVars, ipcVars, fnVars, connVars, lifeVars>>
\* processVars without what the step just taken logged and emitted.
hostVars == <<status, isService, consoleUser, pidFile, children, externals,
              exited, pid, startingGPII, inflight, sinceStart, restartCount,
              timers, scheduled>>

live == children \cup externals

\* The state of ipc.createPipe when no call is in progress.
NoCall == [promise |-> "none", server |-> "none", client |-> "none",
           serverConnection |-> FALSE, clientHandle |-> FALSE,
           resolves |-> 0, resolvedBy |-> "none",
           svc |-> FALSE, alwaysRun |-> FALSE, caller |-> "none"]

\* The connections the model follows.
SocketIds == 1..MaxSockets

\* A connection nobody has made yet.  state is "none", "open", "ended"
\* (socket.end was called) or "closed" (the peer closed too); peer is the pid
\* at the remote end; valid is what checkConnection returned for it; handlers
\* tells that gotMessage is attached.
NoSocket == [state |-> "none", peer |-> Null, valid |-> Null, handlers |-> FALSE,
             current |-> FALSE]

\* A faulty exit: the node process outlives os_service.stop.
Started_OrStopped == status # "init"

\* service.start has run and os_service.stop has not ended the node process:
\* timers, promise callbacks and control handlers run only then.
Started == status = "started"

\* JavaScript truthiness of a pid-like value: null, NaN and 0 are falsy.
Truthy(x) == x \notin {Null, NaN, 0, Undefined}

\* x || 0
OrZero(x) == IF Truthy(x) THEN x ELSE 0

(***************************************************************************)
(* windows.js: the token of the desktop user.                              *)
(***************************************************************************)
\* windows.getDesktopUser, for the outcomes the supervisor meets: this
\* process's own token when not a service, else the console user's token,
\* or 0 when there is no console session or no user on it.
GetDesktopUser(svc) ==
    IF ~svc THEN UserToken
    ELSE IF consoleUser THEN UserToken ELSE NoToken

\* windows.isUserLoggedOn: !!token
IsUserLoggedOn(svc) == GetDesktopUser(svc) # NoToken

\* windows.getUserDataDir(token) finds an APPDATA entry: the user's block has
\* one; the block CreateEnvironmentBlock makes for token 0 is the system's,
\* and sysAppData tells whether that one has.
HasDataDir(token, sysAppData) == token # NoToken \/ sysAppData

\* fs.readFileSync of <dataDir>\gpii.pid: the user's pid file; nothing writes
\* a pid file under the system profile.
PidFileOf(token) == IF token # NoToken THEN pidFile ELSE Absent

\* parseInt(content)
ParseInt(content) == IF content = Garbage THEN NaN ELSE content

(***************************************************************************)
(* gpii-process.js: reading the pid file and looking for another instance. *)
(***************************************************************************)
\* gpiiProcess.readPidFile: Throws when the data directory is not found,
\* null when the file cannot be read, else parseInt of its content.
ReadPidFile(svc, sysAppData) ==
    LET token == GetDesktopUser(svc)
    IN  IF ~HasDataDir(token, sysAppData) THEN Throws
        ELSE IF PidFileOf(token) = Absent THEN Null
        ELSE ParseInt(PidFileOf(token))

\* A faulty probe: any non-zero pid counts as running.
IsProcessRunning_NoProbe(p) == Truthy(p)

\* gpiiProcess.isProcessRunning: process.kill(pid, 0) does not throw
IsProcessRunning(p) == Truthy(p) /\ p \in live

\* gpiiProcess.checkGPII
CheckGPII(svc, sysAppData) ==
    LET p == ReadPidFile(svc, sysAppData)
    IN  IF p = Throws THEN Throws
        ELSE IF Truthy(p) /\ IsProcessRunning(p) THEN p ELSE Null

\* startGPII: var running = startingGPII || checkGPII(), when no exception
AlreadyRunning(svc, sysAppData) == startingGPII \/ Truthy(CheckGPII(svc, sysAppData))

\* startGPII ends with the exception of readPidFile (checkGPII is only
\* evaluated when startingGPII is false)
StartThrows(svc, sysAppData) == ~startingGPII /\ CheckGPII(svc, sysAppData) = Throws

\* gpiiProcess.startGPII, called by a handler that has logged `pre`.
StartGPII(svc, sysAppData, pre) ==
    IF StartThrows(svc, sysAppData)
    THEN /\ log' = pre \o <<"uncaughtException">>
         /\ UNCHANGED <<startingGPII, sinceStart, inflight>>
    ELSE IF AlreadyRunning(svc, sysAppData)
    THEN /\ log' = pre \o <<"GPII is already running.">>
         /\ UNCHANGED <<startingGPII, sinceStart, inflight>>
    ELSE /\ startingGPII' = TRUE
         /\ sinceStart' = 0
         /\ inflight' = inflight + 1
         /\ log' = pre \o <<"Starting GPII">>

(***************************************************************************)
(* service.js: the event bus and the control handler.                      *)
(***************************************************************************)
\* service.module(name).event: the name an event is emitted under
EventName(moduleName, event) ==
    IF moduleName = "service" THEN event ELSE moduleName \o "." \o event

\* gpiiProcess.serviceStarted: the condition under which it calls startGPII
ServiceStartStarts(svc) == ~svc \/ IsUserLoggedOn(svc)

\* A faulty switch: every session event but the logoff starts GPII.
SessionChangeStarts_AllButLogoff(eventType) == eventType # "session-logoff"

\* gpiiProcess.sessionChange: the switch on eventType
SessionChangeStarts(eventType) == eventType = "session-logon"

\* service.controlHandler: logDebug("Service control: ", controlName, eventType)
LogControl(controlName, eventType) ==
    "Service control: " \o controlName \o " " \o eventType

\* gpiiProcess.sessionChange: logDebug("session change", eventType)
LogSessionChange(eventType) == "session change " \o eventType

\* What the control handler and the listeners of its event log before
\* startGPII is reached.
ControlLog(controlName, eventType) ==
    <<LogControl(controlName, eventType)>>
    \o (IF controlName = "sessionchange"
        THEN <<LogSessionChange(eventType)>> ELSE <<>>)

\* No createPipe call has been made, no handle is open.
IpcInit ==
    /\ cp = NoCall
    /\ clientHandles = 0
    /\ servers = 0
    /\ tokens = 0
    /\ closedZero = FALSE
    /\ procToken = Null
    /\ calls = 0

\* No function has been applied.
FnInit == fnIn = <<>> /\ fnOut = Null

\* gpii-connection.js as loaded: no pid, no socket, no server, and no
\* connection made.
ConnInit ==
    /\ connectionPid = Null
    /\ connSocket = Null
    /\ serviceSocket = Null
    /\ connServers = 0
    /\ connServer = "none"
    /\ sockets = [s \in SocketIds |-> NoSocket]
    /\ sent = <<>>

\* The names service.module is called with
ModuleNames == {"service", "gpiiProcess", "gpiiConnection"}

\* service.modules[name] of a name that is not registered; a registered
\* one holds <<the object, the name its event function was made with>>.
NotRegistered == <<>>

\* service.modules = { }; service.module("service", service): the service
\* object is object 1.
ServiceLoaded ==
    [name \in ModuleNames |->
        IF name = "service" THEN <<1, "service">> ELSE NotRegistered]

\* service.modules after gpii-process.js and gpii-connection.js are loaded.
AllLoaded ==
    [name \in ModuleNames |->
        CASE name = "service" -> <<1, "service">>
          [] name = "gpiiProcess" -> <<2, "gpiiProcess">>
          [] name = "gpiiConnection" -> <<3, "gpiiConnection">>]

\* No process has been created.
LifeInit ==
    created = {} /\ startedPids = {} /\ killed = {} /\ modules = AllLoaded

\* The supervisor and the operating system before service.start.
HostInit ==
    /\ status = "init"
    /\ isService = FALSE
    /\ consoleUser \in BOOLEAN
    /\ pidFile \in FileContents
    /\ children = {}
    /\ externals \in SUBSET Pids
    /\ exited = {}
    /\ pid = Null
    /\ startingGPII = FALSE
    /\ inflight = 0
    /\ sinceStart = 0
    /\ restartCount = Undefined
    /\ timers = 0
    /\ scheduled = Null
    /\ log = <<>>
    /\ emitted = <<>>

Init ==
    /\ HostInit
    /\ IpcInit
    /\ FnInit
    /\ ConnInit
    /\ LifeInit

\* service.start: isService is read from the service manager, "start" is
\* emitted and gpiiProcess.serviceStarted runs.
ServiceStart ==
    /\ status = "init"
    /\ \E svc \in BOOLEAN :
        /\ isService' = svc
        /\ IF ServiceStartStarts(svc)
           THEN StartGPII(svc, FALSE, <<>>)
           ELSE /\ log' = <<>>
                /\ UNCHANGED <<startingGPII, sinceStart, inflight>>
    /\ status' = "started"
    /\ emitted' = << <<EventName("service", "start"), "none">> >>
    /\ scheduled' = Null
    /\ UNCHANGED <<pid, restartCount, timers>>
    /\ UNCHANGED osVars
    /\ UNCHANGED <<ipcVars, fnVars, connVars, lifeVars>>

\* service.controlHandler for a control code of the service manager, the
\* listeners of the event it emits, and service.stop for the stop code.
Control(controlName, eventType, sysAppData) ==
    /\ Started
    /\ isService
    /\ IF controlName = "sessionchange" /\ SessionChangeStarts(eventType)
       THEN StartGPII(isService, sysAppData, ControlLog(controlName, eventType))
       ELSE /\ log' = ControlLog(controlName, eventType)
            /\ UNCHANGED <<startingGPII, sinceStart, inflight>>
    /\ emitted' = << <<EventName("service", "svc-" \o controlName), eventType>> >>
                  \o (IF controlName = "stop"
                      THEN << <<EventName("service", "stop"), "none">> >>
                      ELSE <<>>)
    /\ status' = IF controlName = "stop" THEN "stopped" ELSE status
    /\ scheduled' = Null
    /\ UNCHANGED <<isService, pid, restartCount, timers>>
    /\ UNCHANGED osVars
    /\ UNCHANGED <<ipcVars, fnVars, connVars, lifeVars>>

(***************************************************************************)
(* gpii-process.js and gpii-ipc.js: the spawn, the exit handler, the stop. *)
(***************************************************************************)
\* A faulty option: alwaysRun is set whatever the host is.
AlwaysRun_Always(svc) == TRUE

\* startGPII: options.alwaysRun
AlwaysRun(svc) == ~svc

\* ipc.execute goes on to create the process: it has a token, or alwaysRun
CanExecute(svc) == GetDesktopUser(svc) # NoToken \/ AlwaysRun(svc)

\* The promise of ipc.startProcess settles.  createPipe may reject; execute
\* throws without a token (unless alwaysRun) or when the environment block or
\* CreateProcessAsUserW fails; else the process p is created and the success
\* handler of startGPII runs.
SpawnSettle(pipeOk, createOk, p) ==
    /\ Started
    /\ inflight > 0
    /\ inflight' = inflight - 1
    /\ IF pipeOk /\ CanExecute(isService) /\ createOk
       THEN /\ p \notin live \cup exited
            /\ children' = children \cup {p}
            /\ pid' = p
            /\ startingGPII' = FALSE
            /\ emitted' = << <<EventName("gpiiProcess", "started-gpii"), ToString(p)>> >>
            /\ log' = <<>>
       ELSE /\ p = 1
            /\ log' = <<"logError">>
            /\ emitted' = <<>>
            /\ UNCHANGED <<children, pid, startingGPII>>
    /\ UNCHANGED <<status, isService, consoleUser, pidFile, externals, exited>>
    /\ scheduled' = Null
    /\ UNCHANGED <<sinceStart, restartCount, timers>>
    /\ UNCHANGED <<ipcVars, fnVars, connVars, lifeVars>>

\* A faulty classification: the pid read is not tested before it is compared.
Crashed_Untested(filePid, recorded) == filePid = recorded

\* A faulty classification: any pid in the file counts as a crash.
Crashed_AnyPid(filePid, recorded) == Truthy(filePid)

\* gpiiStopped: var crashed = (pid && pid === gpiiProcess.pid)
Crashed(filePid, recorded) == Truthy(filePid) /\ filePid = recorded

\* gpiiStopped: if (seconds > 20)
HealthyRun(seconds) == seconds > HealthySeconds

\* gpiiStopped: the value restartCount takes after a crash
NextRestartCount(count, seconds) ==
    IF HealthyRun(seconds) THEN 0 ELSE OrZero(count) + 1

\* A faulty limit: one more failed start is let through.
GivesUp_OneMore(newCount, seconds) ==
    ~HealthyRun(seconds) /\ newCount > MaxFailedStarts + 1

\* gpiiStopped: restart = false, for the new value of restartCount
GivesUp(newCount, seconds) == ~HealthyRun(seconds) /\ newCount > MaxFailedStarts

\* A faulty delay: the one-second base is left out.
RestartDelay_NoBase(count) == count * DelayStep

\* gpiiStopped: the delay of setTimeout
RestartDelay(count) == count * DelayStep + DelayBase

\* gpiiProcess.gpiiStopped, run when waitForProcessTermination resolves for
\* the ended child p.
GpiiStopped(p, sysAppData) ==
    /\ Started
    /\ p \in exited
    /\ OrZero(restartCount) < MaxRestartCount
    /\ timers < MaxTimers
    /\ exited' = exited \ {p}
    /\ LET filePid == ReadPidFile(isService, sysAppData)
           count == NextRestartCount(restartCount, sinceStart)
       IN  IF filePid = Throws
           THEN /\ log' = <<"GPII stopped", "uncaughtException">>
                /\ scheduled' = Null
                /\ UNCHANGED <<pid, restartCount, timers>>
           ELSE /\ pid' = Null
                /\ IF Crashed(filePid, pid)
                   THEN /\ restartCount' = count
                        /\ timers' = IF GivesUp(count, sinceStart)
                                     THEN timers ELSE timers + 1
                        /\ scheduled' = IF GivesUp(count, sinceStart)
                                        THEN Null ELSE RestartDelay(count)
                        /\ log' = <<"GPII stopped">>
                                  \o (IF HealthyRun(sinceStart) THEN <<>>
                                      ELSE <<"GPII failed at start.">>)
                                  \o (IF GivesUp(count, sinceStart)
                                      THEN <<"Unable to start GPII.">> ELSE <<>>)
                   ELSE /\ log' = <<"GPII stopped">>
                        /\ scheduled' = Null
                        /\ UNCHANGED <<restartCount, timers>>
    /\ emitted' = <<>>
    /\ killed' = killed \ {p}
    /\ UNCHANGED <<status, isService, consoleUser, pidFile, children, externals>>
    /\ UNCHANGED <<startingGPII, inflight, sinceStart>>
    /\ UNCHANGED <<ipcVars, fnVars, connVars, created, startedPids, modules>>

\* A restart timer fires: setTimeout calls gpiiProcess.startGPII.
TimerFire(sysAppData) ==
    /\ Started
    /\ timers > 0
    /\ timers' = timers - 1
    /\ StartGPII(isService, sysAppData, <<>>)
    /\ emitted' = <<>>
    /\ scheduled' = Null
    /\ UNCHANGED <<status, isService, pid, restartCount>>
    /\ UNCHANGED osVars
    /\ UNCHANGED <<ipcVars, fnVars, connVars, lifeVars>>

\* gpiiProcess.stopGPII: process.kill(pid) ends the process with that pid, or
\* throws when there is none.
StopGPII ==
    /\ Started
    /\ IF ~Truthy(pid)
       THEN /\ log' = <<>>
            /\ UNCHANGED <<pid, children, externals, exited, killed>>
       ELSE IF pid \in live
       THEN /\ log' = <<"Stopping GPII">>
            /\ children' = children \ {pid}
            /\ externals' = externals \ {pid}
            /\ exited' = IF pid \in children THEN exited \cup {pid} ELSE exited
            /\ killed' = IF pid \in children THEN killed \cup {pid} ELSE killed
            /\ pid' = Null
       ELSE /\ log' = <<"Stopping GPII", "uncaughtException">>
            /\ UNCHANGED <<pid, children, externals, exited, killed>>
    /\ emitted' = <<>>
    /\ scheduled' = Null
    /\ UNCHANGED <<status, isService, consoleUser, pidFile>>
    /\ UNCHANGED <<startingGPII, inflight, sinceStart, restartCount, timers>>
    /\ UNCHANGED <<ipcVars, fnVars, connVars, created, startedPids, modules>>

(***************************************************************************)
(* The environment: the operating system, the child, the user.             *)
(***************************************************************************)
\* A child ends.  A child that exits cleanly removes the pid file it wrote;
\* one that crashes or is killed leaves it.
ChildExit(p, clean) ==
    /\ status # "stopped"
    /\ p \in children
    /\ children' = children \ {p}
    /\ exited' = exited \cup {p}
    /\ pidFile' = IF clean /\ pidFile = p THEN Absent ELSE pidFile
    /\ UNCHANGED <<status, isService, consoleUser, externals>>
    /\ log' = <<>> /\ emitted' = <<>> /\ scheduled' = Null
    /\ UNCHANGED supVars
    /\ UNCHANGED <<ipcVars, fnVars, connVars, lifeVars>>

\* The pid file is written: by the child (its own pid), by another instance,
\* or by the user (any content), or it is removed.
PidFileWrite(content) ==
    /\ status # "stopped"
    /\ content # pidFile
    /\ pidFile' = content
    /\ UNCHANGED <<status, isService, consoleUser, children, externals, exited>>
    /\ log' = <<>> /\ emitted' = <<>> /\ scheduled' = Null
    /\ UNCHANGED supVars
    /\ UNCHANGED <<ipcVars, fnVars, connVars, lifeVars>>

\* A user logs on at the console, or the console user logs off.
ConsoleChange ==
    /\ status # "stopped"
    /\ consoleUser' = ~consoleUser
    /\ UNCHANGED <<status, isService, pidFile, children, externals, exited>>
    /\ log' = <<>> /\ emitted' = <<>> /\ scheduled' = Null
    /\ UNCHANGED supVars
    /\ UNCHANGED <<ipcVars, fnVars, connVars, lifeVars>>

\* Another process starts, with a pid no live process has.
ExternalStart(p) ==
    /\ status # "stopped"
    /\ p \notin live \cup exited
    /\ externals' = externals \cup {p}
    /\ UNCHANGED <<status, isService, consoleUser, pidFile, children, exited>>
    /\ log' = <<>> /\ emitted' = <<>> /\ scheduled' = Null
    /\ UNCHANGED supVars
    /\ UNCHANGED <<ipcVars, fnVars, connVars, lifeVars>>

\* Another process ends.
ExternalExit(p) ==
    /\ status # "stopped"
    /\ p \in externals
    /\ externals' = externals \ {p}
    /\ UNCHANGED <<status, isService, consoleUser, pidFile, children, exited>>
    /\ log' = <<>> /\ emitted' = <<>> /\ scheduled' = Null
    /\ UNCHANGED supVars
    /\ UNCHANGED <<ipcVars, fnVars, connVars, lifeVars>>

\* Time passes: the whole seconds since lastStart reach a later instant.  A
\* termination that is waiting to be delivered is delivered first (the two
\* orders reach the same states).
Tick(t) ==
    /\ status # "stopped"
    /\ exited = {}
    /\ t > sinceStart
    /\ sinceStart' = t
    /\ log' = <<>> /\ emitted' = <<>> /\ scheduled' = Null
    /\ UNCHANGED <<status, isService, pid, startingGPII, inflight, restartCount, timers>>
    /\ UNCHANGED osVars
    /\ UNCHANGED <<ipcVars, fnVars, connVars, lifeVars>>

Next ==
    \/ ServiceStart
    \/ \E ce \in ControlCodes, sysAppData \in BOOLEAN :
          Control(ce[1], ce[2], sysAppData)
    \/ \E pipeOk \in BOOLEAN, createOk \in BOOLEAN, p \in Pids :
          SpawnSettle(pipeOk, createOk, p)
    \/ \E p \in Pids, sysAppData \in BOOLEAN : GpiiStopped(p, sysAppData)
    \/ \E sysAppData \in BOOLEAN : TimerFire(sysAppData)
    \/ StopGPII
    \/ \E p \in Pids, clean \in BOOLEAN : ChildExit(p, clean)
    \/ \E c \in FileContents : PidFileWrite(c)
    \/ ConsoleChange
    \/ \E p \in Pids : ExternalStart(p)
    \/ \E p \in Pids : ExternalExit(p)
    \/ \E t \in Instants : Tick(t)

Spec == Init /\ [][Next]_vars

(***************************************************************************)
(* The variant of gpii-process.js that opens the TCP listener of           *)
(* gpii-connection.js before it starts the process.  It has no exit        *)
(* handler and no restart timer; service.js, gpii-ipc.js and windows.js    *)
(* are the same.                                                           *)
(***************************************************************************)
\* gpiiProcess.startGPII of the variant, called by a handler that has logged
\* `pre`: checkGPII comes first, then the flag.
ListenStartGPII(svc, sysAppData, pre) ==
    IF CheckGPII(svc, sysAppData) = Throws
    THEN /\ log' = pre \o <<"uncaughtException">>
         /\ UNCHANGED startingGPII
    ELSE IF Truthy(CheckGPII(svc, sysAppData))
    THEN /\ log' = pre \o <<"Another GPII is already running">>
         /\ UNCHANGED startingGPII
    ELSE IF startingGPII
    THEN /\ log' = pre \o <<"GPII is already starting">>
         /\ UNCHANGED startingGPII
    ELSE /\ startingGPII' = TRUE
         /\ log' = pre

\* service.start, with serviceStarted of the variant.
ListenServiceStart ==
    /\ status = "init"
    /\ \E svc \in BOOLEAN :
        /\ isService' = svc
        /\ IF ServiceStartStarts(svc)
           THEN ListenStartGPII(svc, FALSE, <<>>)
           ELSE /\ log' = <<>>
                /\ UNCHANGED startingGPII
    /\ status' = "started"
    /\ emitted' = << <<EventName("service", "start"), "none">> >>
    /\ scheduled' = Null
    /\ UNCHANGED <<pid, inflight, sinceStart, restartCount, timers>>
    /\ UNCHANGED osVars
    /\ UNCHANGED <<ipcVars, fnVars, connVars, lifeVars>>

\* service.controlHandler, with sessionChange of the variant.
ListenControl(controlName, eventType, sysAppData) ==
    /\ Started
    /\ isService
    /\ IF controlName = "sessionchange" /\ SessionChangeStarts(eventType)
       THEN ListenStartGPII(isService, sysAppData, ControlLog(controlName, eventType))
       ELSE /\ log' = ControlLog(controlName, eventType)
            /\ UNCHANGED startingGPII
    /\ emitted' = << <<EventName("service", "svc-" \o controlName), eventType>> >>
                  \o (IF controlName = "stop"
                      THEN << <<EventName("service", "stop"), "none">> >>
                      ELSE <<>>)
    /\ status' = IF controlName = "stop" THEN "stopped" ELSE status
    /\ scheduled' = Null
    /\ UNCHANGED <<isService, pid, inflight, sinceStart, restartCount, timers>>
    /\ UNCHANGED osVars
    /\ UNCHANGED <<ipcVars, fnVars, connVars, lifeVars>>

\* The promise of gpiiConnection.listen resolves (the flag is set exactly
\* while it is pending): the callback calls ipc.startProcess without
\* returning its promise, and .lastly clears the flag.
ListenSettle ==
    /\ Started
    /\ startingGPII
    /\ inflight < MaxAttempts
    /\ inflight' = inflight + 1
    /\ startingGPII' = FALSE
    /\ log' = <<"Starting GPII">>
    /\ emitted' = <<>>
    /\ scheduled' = Null
    /\ UNCHANGED <<status, isService, pid, sinceStart, restartCount, timers>>
    /\ UNCHANGED osVars
    /\ UNCHANGED <<ipcVars, fnVars, connVars, lifeVars>>

\* The promise of ipc.startProcess settles in the variant: on success the
\* pid is recorded and started-gpii emitted; nothing handles a rejection.
ListenSpawnSettle(pipeOk, createOk, p) ==
    /\ Started
    /\ inflight > 0
    /\ inflight' = inflight - 1
    /\ IF pipeOk /\ CanExecute(isService) /\ createOk
       THEN /\ p \notin live
            /\ children' = children \cup {p}
            /\ pid' = p
            /\ emitted' = << <<EventName("gpiiProcess", "started-gpii"), ToString(p)>> >>
       ELSE /\ p = 1
            /\ emitted' = <<>>
            /\ UNCHANGED <<children, pid>>
    /\ log' = <<>>
    /\ scheduled' = Null
    /\ UNCHANGED <<status, isService, consoleUser, pidFile, externals, exited>>
    /\ UNCHANGED <<startingGPII, sinceStart, restartCount, timers>>
    /\ UNCHANGED <<ipcVars, fnVars, connVars, lifeVars>>

\* A child of the variant ends; nothing waits for it.
ListenChildExit(p, clean) ==
    /\ status # "stopped"
    /\ p \in children
    /\ children' = children \ {p}
    /\ pidFile' = IF clean /\ pidFile = p THEN Absent ELSE pidFile
    /\ UNCHANGED <<status, isService, consoleUser, externals, exited>>
    /\ log' = <<>> /\ emitted' = <<>> /\ scheduled' = Null
    /\ UNCHANGED supVars
    /\ UNCHANGED <<ipcVars, fnVars, connVars, lifeVars>>

NextListen ==
    \/ ListenServiceStart
    \/ \E ce \in ControlCodes, sysAppData \in BOOLEAN :
          ListenControl(ce[1], ce[2], sysAppData)
    \/ ListenSettle
    \/ \E pipeOk \in BOOLEAN, createOk \in BOOLEAN, p \in Pids :
          ListenSpawnSettle(pipeOk, createOk, p)
    \/ \E p \in Pids, clean \in BOOLEAN : ListenChildExit(p, clean)
    \/ \E c \in FileContents : PidFileWrite(c)
    \/ ConsoleChange
    \/ \E p \in Pids : ExternalStart(p)
    \/ \E p \in Pids : ExternalExit(p)

SpecListen == Init /\ [][NextListen]_vars

(***************************************************************************)
(* gpii-ipc.js and windows.js at the level of handles: the user token each *)
(* operation acquires and closes, and the two halves of the pipe that      *)
(* ipc.createPipe puts together before ipc.execute creates the process.    *)
(* One ipc.startProcess call is followed at a time; cp holds                *)
(*   promise   "none", "pending", "resolved", "rejected"                   *)
(*   server    "none", "starting", "listening", "closed", "failed"         *)
(*   client    "none", "pending" (CreateFileW.async issued), "opened" or   *)
(*             "failed" (completed, callback not yet run), "delivered"     *)
(*   serverConnection, clientHandle   the fields of `pipe` are set         *)
(*   resolves  how many times resolve(pipe) was called                     *)
(*   svc, alwaysRun, caller   the host mode and the options of the call    *)
(***************************************************************************)
\* The smaller of two numbers.
Min(a, b) == IF a < b THEN a ELSE b

\* What an operation does to the token handles: it acquired `acquired`
\* tokens (0 or 1) and called CloseHandle `closes` times on the value it
\* holds; a call beyond the tokens acquired is a call on 0 or on a closed
\* handle.
TokenUse(acquired, closes) ==
    /\ tokens' = tokens + acquired - Min(closes, acquired)
    /\ closedZero' = (closedZero \/ closes > acquired)

\* getDesktopUser opened a handle: every token but 0 is one.
Acquired(token) == IF token # NoToken THEN 1 ELSE 0

\* A faulty release: CloseHandle is called whatever the token is.
ClosesToken_Always(token) == 1

\* if (token) { CloseHandle(token); } : the number of CloseHandle calls
ClosesToken(token) == IF token # NoToken THEN 1 ELSE 0

\* windows.isUserLoggedOn, applied while the host mode is svc.
IsUserLoggedOnCall(svc) ==
    /\ TokenUse(Acquired(GetDesktopUser(svc)), ClosesToken(GetDesktopUser(svc)))
    /\ fnIn' = <<"isUserLoggedOn", svc>>
    /\ fnOut' = IF IsUserLoggedOn(svc) THEN 1 ELSE 0
    /\ fnIn' # fnIn
    /\ UNCHANGED <<cp, clientHandles, servers, procToken, calls>>
    /\ UNCHANGED <<processVars, connVars, lifeVars>>

\* gpiiProcess.readPidFile at the level of the token: getUserDataDir throws
\* when CreateEnvironmentBlock fails (~envOk), the function throws when no
\* APPDATA entry is found, and the finally block runs on each path.
ReadPidFileCall(svc, envOk, sysAppData) ==
    /\ TokenUse(Acquired(GetDesktopUser(svc)), ClosesToken(GetDesktopUser(svc)))
    /\ fnIn' = <<"readPidFile", svc, envOk, sysAppData>>
    /\ fnOut' = IF envOk THEN ReadPidFile(svc, sysAppData) ELSE Throws
    /\ fnIn' # fnIn
    /\ UNCHANGED <<cp, clientHandles, servers, procToken, calls>>
    /\ UNCHANGED <<processVars, connVars, lifeVars>>

\* ipc.execute throws before the try block: no token and no alwaysRun.
ExecuteRefuses(svc, alwaysRun) == GetDesktopUser(svc) = NoToken /\ ~alwaysRun

\* ipc.execute creates the process: it got past the token check,
\* CreateEnvironmentBlock succeeded and so did CreateProcessAsUserW.
ExecuteCreates(svc, alwaysRun, envOk, createOk) ==
    ~ExecuteRefuses(svc, alwaysRun) /\ envOk /\ createOk

\* ipc.execute(command, options), called by the callback of createPipe in
\* ipc.startProcess: the token is acquired, the process is created with it
\* (0 for the token of this process) or an exception is thrown, and the
\* finally block closes the token.  The handles of options.inheritHandles
\* are marked inheritable and left as they are.
Execute(svc, alwaysRun, envOk, createOk) ==
    /\ TokenUse(Acquired(GetDesktopUser(svc)),
                IF ExecuteRefuses(svc, alwaysRun) THEN 0
                ELSE ClosesToken(GetDesktopUser(svc)))
    /\ procToken' = IF ExecuteCreates(svc, alwaysRun, envOk, createOk)
                    THEN GetDesktopUser(svc) ELSE Null
    /\ fnIn' = <<"execute", svc, alwaysRun, envOk, createOk>>
    /\ fnOut' = IF ExecuteCreates(svc, alwaysRun, envOk, createOk)
                THEN 1 ELSE Throws
    /\ UNCHANGED clientHandles

\* ipc.startProcess(command, options): createPipe makes the server and calls
\* server.listen.  startGPII passes alwaysRun = !service.isService; another
\* caller passes what it likes.
StartProcess(svc, alwaysRun, caller) ==
    /\ cp.promise # "pending"
    /\ calls < MaxCalls
    /\ (caller = "startGPII") => (alwaysRun = AlwaysRun(svc))
    /\ calls' = calls + 1
    /\ cp' = [NoCall EXCEPT !.promise = "pending", !.server = "starting",
                            !.svc = svc, !.alwaysRun = alwaysRun,
                            !.caller = caller]
    /\ fnIn' = <<"startProcess", svc, alwaysRun>> /\ fnOut' = Null
    /\ UNCHANGED <<clientHandles, servers, tokens, closedZero, procToken>>
    /\ UNCHANGED <<processVars, connVars, lifeVars>>

\* The callback of server.listen: the server listens on the pipe name and
\* connectToPipe issues CreateFileW.async.
ListenDone ==
    /\ cp.server = "starting"
    /\ cp' = [cp EXCEPT !.server = "listening", !.client = "pending"]
    /\ servers' = servers + 1
    /\ fnIn' = <<"listen">> /\ fnOut' = Null
    /\ UNCHANGED <<clientHandles, tokens, closedZero, procToken, calls>>
    /\ UNCHANGED <<processVars, connVars, lifeVars>>

\* The "error" event of the server: it cannot listen on the name (in use,
\* malformed); the handler rejects.
ServerError ==
    /\ cp.server = "starting"
    /\ cp' = [cp EXCEPT !.server = "failed", !.promise = "rejected"]
    /\ fnIn' = <<"error">> /\ fnOut' = Null
    /\ UNCHANGED <<clientHandles, servers, tokens, closedZero, procToken, calls>>
    /\ UNCHANGED <<processVars, connVars, lifeVars>>

\* CreateFileW completes in the thread pool: with a handle on the pipe, or
\* with an error or an invalid handle.
ClientOpen(ok) ==
    /\ cp.client = "pending"
    /\ cp' = [cp EXCEPT !.client = IF ok THEN "opened" ELSE "failed"]
    /\ clientHandles' = IF ok THEN clientHandles + 1 ELSE clientHandles
    /\ fnIn' = <<"CreateFileW", ok>> /\ fnOut' = Null
    /\ UNCHANGED <<servers, tokens, closedZero, procToken, calls>>
    /\ UNCHANGED <<processVars, connVars, lifeVars>>

\* A faulty handler: the client half resolves without the server half.
ResolvesOnClient_Always(c) == TRUE

\* createPipe, the callback of connectToPipe: if (pipe.serverConnection)
ResolvesOnClient(c) == c.serverConnection

\* createPipe, the "connection" handler: if (pipe.clientHandle)
ResolvesOnConnection(c) == c.clientHandle

\* The promise of connectToPipe settles.  Resolved: pipe.clientHandle is set
\* and, if the connection is there, createPipe resolves and the callback of
\* ipc.startProcess runs ipc.execute.  Rejected: createPipe rejects.
ClientCallback(envOk, createOk) ==
    /\ cp.client \in {"opened", "failed"}
    /\ IF cp.client = "failed"
       THEN /\ cp' = [cp EXCEPT !.client = "delivered",
                                !.promise = IF cp.promise = "pending"
                                            THEN "rejected" ELSE cp.promise]
            /\ envOk /\ createOk
            /\ fnIn' = <<"connectToPipe", FALSE>> /\ fnOut' = Null
            /\ UNCHANGED <<clientHandles, tokens, closedZero, procToken>>
       ELSE IF ResolvesOnClient(cp) /\ cp.promise = "pending"
       THEN /\ cp' = [cp EXCEPT !.client = "delivered", !.clientHandle = TRUE,
                                !.promise = "resolved",
                                !.resolves = cp.resolves + 1,
                                !.resolvedBy = "client"]
            /\ Execute(cp.svc, cp.alwaysRun, envOk, createOk)
       ELSE /\ cp' = [cp EXCEPT !.client = "delivered", !.clientHandle = TRUE,
                                !.resolves = IF ResolvesOnClient(cp)
                                             THEN cp.resolves + 1
                                             ELSE cp.resolves]
            /\ envOk /\ createOk
            /\ fnIn' = <<"connectToPipe", TRUE>> /\ fnOut' = Null
            /\ UNCHANGED <<clientHandles, tokens, closedZero, procToken>>
    /\ UNCHANGED <<servers, calls>>
    /\ UNCHANGED <<processVars, connVars, lifeVars>>

\* The "connection" event of the server, once the client end is open:
\* pipe.serverConnection is set, the server is closed and, if the client
\* handle is there, createPipe resolves and ipc.execute runs.
Connection(envOk, createOk) ==
    /\ cp.server = "listening"
    /\ cp.client = "opened" \/ cp.clientHandle
    /\ servers' = servers - 1
    /\ IF ResolvesOnConnection(cp) /\ cp.promise = "pending"
       THEN /\ cp' = [cp EXCEPT !.server = "closed", !.serverConnection = TRUE,
                                !.promise = "resolved",
                                !.resolves = cp.resolves + 1,
                                !.resolvedBy = "connection"]
            /\ Execute(cp.svc, cp.alwaysRun, envOk, createOk)
       ELSE /\ cp' = [cp EXCEPT !.server = "closed", !.serverConnection = TRUE,
                                !.resolves = IF ResolvesOnConnection(cp)
                                             THEN cp.resolves + 1
                                             ELSE cp.resolves]
            /\ envOk /\ createOk
            /\ fnIn' = <<"connection">> /\ fnOut' = Null
            /\ UNCHANGED <<clientHandles, tokens, closedZero, procToken>>
    /\ UNCHANGED calls
    /\ UNCHANGED <<processVars, connVars, lifeVars>>

NextIpc ==
    \/ \E svc \in BOOLEAN : IsUserLoggedOnCall(svc)
    \/ \E svc \in BOOLEAN, envOk \in BOOLEAN, sysAppData \in BOOLEAN :
          ReadPidFileCall(svc, envOk, sysAppData)
    \/ \E svc \in BOOLEAN, alwaysRun \in BOOLEAN, caller \in {"startGPII", "other"} :
          StartProcess(svc, alwaysRun, caller)
    \/ ListenDone
    \/ ServerError
    \/ \E ok \in BOOLEAN : ClientOpen(ok)
    \/ \E envOk \in BOOLEAN, createOk \in BOOLEAN : ClientCallback(envOk, createOk)
    \/ \E envOk \in BOOLEAN, createOk \in BOOLEAN : Connection(envOk, createOk)
    \/ ConsoleChange

SpecIpc == Init /\ [][NextIpc]_vars

(***************************************************************************)
(* windows.getDesktopUser and gpiiConnection.checkConnection as functions  *)
(* of what the operating system answers.                                   *)
(***************************************************************************)
\* winapi.errorCodes
ERROR_SUCCESS == 0
ERROR_ACCESS_DENIED == 5
ERROR_NO_TOKEN == 1008
ERROR_PRIVILEGE_NOT_HELD == 1314

\* Some other codes GetLastError can give.
ErrorCodes == {ERROR_SUCCESS, ERROR_ACCESS_DENIED, ERROR_NO_TOKEN,
               ERROR_PRIVILEGE_NOT_HELD, 2, 6, 87, 122}

\* WTSGetActiveConsoleSessionId: 0xffffffff when there is no session.  The
\* model checker's integers stop at 2^31 - 1, which stands for it here; the
\* code only compares the session id with this one value.
NoSession == 2147483647
SessionIds == {NoSession, 1}

\* Values of token handles.
Handles == 1..MaxHandle

\* winapi.error(msg, errorCode): an Error that carries the code
Win32Error(errorCode) == 0 - (100000 + errorCode)

\* A faulty switch: ACCESS_DENIED is taken for a hard error.
SoftErrorCodes_NoAccessDenied ==
    {ERROR_NO_TOKEN, ERROR_SUCCESS, ERROR_PRIVILEGE_NOT_HELD}

\* getDesktopUser: the cases of the switch that set token = 0
SoftErrorCodes ==
    {ERROR_NO_TOKEN, ERROR_SUCCESS, ERROR_ACCESS_DENIED, ERROR_PRIVILEGE_NOT_HELD}

\* windows.getDesktopUser, for what the system calls answer: OpenProcessToken
\* (ownOk, own), WTSGetActiveConsoleSessionId (sessionId), WTSQueryUserToken
\* (success, queried) and GetLastError (errorCode).
GetDesktopUserOf(svc, ownOk, own, sessionId, success, queried, errorCode) ==
    IF ~svc THEN (IF ownOk THEN own ELSE Throws)
    ELSE IF sessionId = NoSession THEN NoToken
    ELSE IF success THEN queried
    ELSE IF errorCode \in SoftErrorCodes THEN NoToken
    ELSE Win32Error(errorCode)

\* windows.getDesktopUser is applied.
GetDesktopUserCall(svc, ownOk, own, sessionId, success, queried, errorCode) ==
    /\ fnIn' = <<"getDesktopUser", svc, ownOk, own, sessionId, success,
                 queried, errorCode>>
    /\ fnOut' = GetDesktopUserOf(svc, ownOk, own, sessionId, success,
                                 queried, errorCode)
    /\ fnIn' # fnIn
    /\ UNCHANGED ipcVars
    /\ UNCHANGED <<processVars, connVars, lifeVars>>

\* Process ids in the TCP table: this process, the child, others.
ConnPids == 1..MaxConnPid

\* process.pid
SelfPid == 1

\* The process trees tried: the parent of each process, 0 for a parent
\* outside ConnPids; this process has its parent outside.
ParentMaps == {f \in [ConnPids -> {0} \cup ConnPids] : f[SelfPid] = 0}

\* windows.getParentPid: windows.kernel32 is not defined (the bindings are
\* winapi.kernel32), so the call throws a TypeError before it looks at
\* the snapshot.
GetParentPid(parentOf, p) == Throws

\* windows.isParentPid(childPid, parentPid, depth): walks up from childPid.
RECURSIVE IsParentPidFrom(_, _, _, _)
IsParentPidFrom(parentOf, p, parentPid, depth) ==
    IF ~Truthy(p) \/ depth <= 0 THEN 0
    ELSE IF GetParentPid(parentOf, p) = Throws THEN Throws
    ELSE IF GetParentPid(parentOf, p) = parentPid THEN 1
    ELSE IsParentPidFrom(parentOf, GetParentPid(parentOf, p), parentPid, depth - 1)

\* depth = depth || 5
IsParentPid(parentOf, childPid, parentPid) ==
    IsParentPidFrom(parentOf, childPid, parentPid, 5)

\* gpiiConnection.checkConnection: 1 for a truthy result, 0 for a falsy one,
\* Throws when isParentPid throws.  found tells whether getTcpConnectionPids
\* returned the pids; connPid is gpiiConnection.pid.
CheckConnection(parentOf, found, localPid, remotePid, connPid) ==
    IF ~found THEN 0
    ELSE IF localPid # SelfPid THEN 0
    ELSE IF ~Truthy(remotePid) THEN 0
    ELSE IF remotePid = connPid THEN 1
    ELSE IsParentPid(parentOf, connPid, remotePid)

\* gpiiConnection.checkConnection is applied to a socket whose ends the TCP
\* table gives to localPid and remotePid, while the child is childPid.
\* gpiiConnection.pid is null unless the embedding program has assigned the
\* child's pid to it.
CheckConnectionCall(parentOf, found, localPid, remotePid, childPid, assigned) ==
    /\ childPid # SelfPid
    /\ found \/ (localPid = Undefined /\ remotePid = Undefined)
    /\ fnIn' = <<"checkConnection", parentOf, found, localPid, remotePid,
                 childPid, assigned>>
    /\ fnOut' = CheckConnection(parentOf, found, localPid, remotePid,
                                IF assigned THEN childPid ELSE Null)
    /\ fnIn' # fnIn
    /\ UNCHANGED ipcVars
    /\ UNCHANGED <<processVars, connVars, lifeVars>>

\* What a function that returns an object gives when it throws instead.
Thrown == <<Throws>>

\* A faulty call: the result of CreateProcessAsUserW is not looked at.
CreateFailed_Unchecked(ret) == FALSE

\* ipc.execute: if (!ret) { throw winapi.error("CreateProcessAsUser"); }
CreateFailed(ret) == ret = 0

\* What CreateProcessAsUserW answers: 0 and the PROCESS_INFORMATION buffer
\* as ipc.execute zero-filled it, or non-zero with the pid and the handle of
\* the new process in it.
CreateProcessAnswers(ret, dwProcessId, hProcess) ==
    IF ret = 0 THEN dwProcessId = 0 /\ hProcess = 0
    ELSE dwProcessId \in Pids /\ hProcess \in Handles

\* ipc.execute(command, options): the processInfo object <<pid, handle>> it
\* returns, for the host mode, options.alwaysRun, whether
\* CreateEnvironmentBlock succeeds, and what CreateProcessAsUserW answers.
ExecuteOf(svc, alwaysRun, envOk, ret, dwProcessId, hProcess) ==
    IF ExecuteRefuses(svc, alwaysRun) THEN Thrown
    ELSE IF ~envOk THEN Thrown
    ELSE IF CreateFailed(ret) THEN Thrown
    ELSE <<dwProcessId, hProcess>>

\* ipc.execute is applied.
ExecuteCall(svc, alwaysRun, envOk, ret, dwProcessId, hProcess) ==
    /\ CreateProcessAnswers(ret, dwProcessId, hProcess)
    /\ fnIn' = <<"execute", svc, alwaysRun, envOk, ret, dwProcessId, hProcess>>
    /\ fnOut' = ExecuteOf(svc, alwaysRun, envOk, ret, dwProcessId, hProcess)
    /\ fnIn' # fnIn
    /\ log' = <<>> /\ emitted' = <<>>
    /\ UNCHANGED <<hostVars, ipcVars, connVars, lifeVars>>

\* The callback ipc.startProcess gives to createPipe, applied to the pipe
\* pair createPipe resolved with: what the promise of startProcess settles
\* with, <<pipe, pid, processHandle>> or the exception of ipc.execute.
StartProcessOf(serverConnection, svc, alwaysRun, envOk, ret, dwProcessId, hProcess) ==
    IF ExecuteOf(svc, alwaysRun, envOk, ret, dwProcessId, hProcess) = Thrown
    THEN Thrown
    ELSE <<serverConnection,
           ExecuteOf(svc, alwaysRun, envOk, ret, dwProcessId, hProcess)[1],
           ExecuteOf(svc, alwaysRun, envOk, ret, dwProcessId, hProcess)[2]>>

\* The promise of ipc.startProcess settles for gpiiProcess.startGPII, which
\* passed alwaysRun = !service.isService: resolved, the callback records the
\* pid and emits started-gpii; rejected, the error is logged.
StartProcessCall(serverConnection, svc, envOk, ret, dwProcessId, hProcess) ==
    /\ CreateProcessAnswers(ret, dwProcessId, hProcess)
    /\ dwProcessId \notin children
    /\ fnIn' = <<"startProcess", serverConnection, svc, envOk, ret,
                 dwProcessId, hProcess>>
    /\ fnOut' = StartProcessOf(serverConnection, svc, AlwaysRun(svc), envOk,
                               ret, dwProcessId, hProcess)
    /\ IF fnOut' = Thrown
       THEN /\ log' = <<"error">>
            /\ emitted' = <<>>
            /\ UNCHANGED <<pid, children>>
       ELSE /\ pid' = fnOut'[2]
            /\ children' = children \cup {dwProcessId}
            /\ emitted' = << <<EventName("gpiiProcess", "started-gpii"),
                               ToString(pid')>> >>
            /\ log' = <<>>
    /\ UNCHANGED <<status, isService, consoleUser, pidFile, externals, exited,
                   startingGPII, inflight, sinceStart, restartCount, timers,
                   scheduled>>
    /\ UNCHANGED ipcVars
    /\ UNCHANGED <<connVars, lifeVars>>

\* One state of the supervisor is enough to apply the functions in.
InitFn == Init /\ ~consoleUser /\ pidFile = Absent /\ externals = {}

NextFn ==
    \/ \E svc \in BOOLEAN, ownOk \in BOOLEAN, own \in Handles,
          sessionId \in SessionIds, success \in BOOLEAN, queried \in Handles,
          errorCode \in ErrorCodes :
          GetDesktopUserCall(svc, ownOk, own, sessionId, success, queried, errorCode)
    \/ \E parentOf \in ParentMaps, found \in BOOLEAN,
          localPid \in {Undefined} \cup ConnPids,
          remotePid \in {Undefined} \cup ConnPids,
          childPid \in ConnPids, assigned \in BOOLEAN :
          CheckConnectionCall(parentOf, found, localPid, remotePid, childPid, assigned)

SpecFn == InitFn /\ [][NextFn]_vars

\* The spawn alone: ipc.execute, and ipc.startProcess settling for startGPII.
NextSpawn ==
    \/ \E svc \in BOOLEAN, alwaysRun \in BOOLEAN, envOk \in BOOLEAN,
          ret \in {0, 1}, dwProcessId \in {0} \cup Pids,
          hProcess \in {0} \cup Handles :
          ExecuteCall(svc, alwaysRun, envOk, ret, dwProcessId, hProcess)
    \/ \E serverConnection \in Handles, svc \in BOOLEAN, envOk \in BOOLEAN,
          ret \in {0, 1}, dwProcessId \in {0} \cup Pids,
          hProcess \in {0} \cup Handles :
          StartProcessCall(serverConnection, svc, envOk, ret, dwProcessId, hProcess)

SpecSpawn == InitFn /\ [][NextSpawn]_vars

(***************************************************************************)
(* Functions of one call, applied to inputs the initial state draws.       *)
(***************************************************************************)
\* The state a function is applied in: nothing started, the arguments of
\* the call in fnIn and no result yet.
ArgsInit(args) ==
    /\ HostInit /\ ~consoleUser /\ pidFile = Absent /\ externals = {}
    /\ IpcInit
    /\ ConnInit
    /\ LifeInit
    /\ fnIn \in args
    /\ fnOut = <<>>

\* The function named in fnIn[1] returns `result`: fnOut holds it.
Returns(name, result) ==
    /\ fnIn[1] = name
    /\ fnOut = <<>>
    /\ fnOut' = <<result>>
    /\ UNCHANGED fnIn
    /\ UNCHANGED <<processVars, ipcVars, connVars, lifeVars>>

(***************************************************************************)
(* ipc.generatePipeName.  A string is the sequence of its characters.      *)
(***************************************************************************)
\* crypto.randomBytes(18)
RandomByteCount == 18

\* The values of a byte that are tried: they give the sextets 0, 15, 48, 62
\* and 63, and so "+" and "/" among the characters.
ByteSamples == {0, 63, 251, 255}

\* The random inputs tried: every group of three bytes holds the triple t,
\* but group g, which holds the triple u.
RandomInputs ==
    {[i \in 1..RandomByteCount |->
         IF (i - 1) \div 3 = g THEN u[((i - 1) % 3) + 1] ELSE t[((i - 1) % 3) + 1]] :
       t \in {<<0, 0, 0>>, <<255, 255, 255>>},
       u \in ByteSamples \X ByteSamples \X ByteSamples,
       g \in 0..((RandomByteCount \div 3) - 1)}

\* The base64 alphabet.
Base64Alphabet ==
    <<
      "A", "B", "C", "D", "E", "F", "G", "H", "I", "J", "K", "L", "M", "N", "O", "P",
      "Q", "R", "S", "T", "U", "V", "W", "X", "Y", "Z", "a", "b", "c", "d", "e", "f",
      "g", "h", "i", "j", "k", "l", "m", "n", "o", "p", "q", "r", "s", "t", "u", "v",
      "w", "x", "y", "z", "0", "1", "2", "3", "4", "5", "6", "7", "8", "9", "+", "/" >>

\* The sextet at position k (0..3) of the three bytes b1, b2, b3.
Sextet(b1, b2, b3, k) ==
    CASE k = 0 -> b1 \div 4
      [] k = 1 -> ((b1 % 4) * 16) + (b2 \div 16)
      [] k = 2 -> ((b2 % 16) * 4) + (b3 \div 64)
      [] k = 3 -> b3 % 64

\* buffer.toString("base64"), for a buffer whose length is a multiple of
\* three (there is no padding then): four characters for three bytes.
Base64(bytes) ==
    [j \in 1..((Len(bytes) \div 3) * 4) |->
        Base64Alphabet[Sextet(bytes[(((j - 1) \div 4) * 3) + 1],
                              bytes[(((j - 1) \div 4) * 3) + 2],
                              bytes[(((j - 1) \div 4) * 3) + 3],
                              (j - 1) % 4) + 1]]

\* A faulty pattern: only the backslash is replaced.
Replaced_BackslashOnly(c) == c = "\\"

\* The characters the pattern /[\\/]/g matches.
Replaced(c) == c \in {"\\", "/"}

\* .replace(/[\\/]/g, ".")
ReplaceSlashes(chars) ==
    [j \in 1..Len(chars) |-> IF Replaced(chars[j]) THEN "." ELSE chars[j]]

\* "\\\\.\\pipe\\", the prefix of a pipe name
PipePrefix == <<"\\", "\\", ".", "\\", "p", "i", "p", "e", "\\">>

\* ipc.generatePipeName, for the bytes crypto.randomBytes gives
GeneratePipeName(bytes) ==
    PipePrefix \o <<"g", "p", "i", "i", "-">> \o ReplaceSlashes(Base64(bytes))

\* ipc.generatePipeName is applied.
GeneratePipeNameCall == Returns("generatePipeName", GeneratePipeName(fnIn[2]))

InitName == ArgsInit({<<"generatePipeName", bytes>> : bytes \in RandomInputs})

SpecName == InitName /\ [][GeneratePipeNameCall]_vars

(***************************************************************************)
(* windows.getUserDataDir.  A string is the sequence of its characters; a  *)
(* JavaScript value that is a string or null is JsNull or Str(chars).      *)
(***************************************************************************)
\* entries of an environment block that are followed
MaxEnvLen == 2
\* handles a caller passes in options.inheritHandles
MaxInherit == 2

JsNull == <<"null">>
Str(chars) == <<"string", chars>>

\* The entries tried, "NAME=VALUE": the entry the system makes, one in
\* mixed case, names that end or begin with APPDATA, an empty value, another
\* variable, a value with a line break, and one in lower case whose value
\* ends in a separator.
EnvEntries ==
    {<<"A", "P", "P", "D", "A", "T", "A", "=", "C", ":", "\\", "R">>,
     <<"A", "p", "p", "D", "a", "t", "a", "=", "D">>,
     <<"L", "O", "C", "A", "L", "A", "P", "P", "D", "A", "T", "A", "=", "L">>,
     <<"A", "P", "P", "D", "A", "T", "A", "2", "=", "X">>,
     <<"A", "P", "P", "D", "A", "T", "A", "=">>,
     <<"P", "A", "T", "H", "=", "P">>,
     <<"A", "P", "P", "D", "A", "T", "A", "=", "E", "\n", "F">>,
     <<"a", "p", "p", "d", "a", "t", "a", "=", "G", "\\">>}

\* The environment blocks tried: what windows.getEnv(token) returns.
EnvBlocks == UNION {[1..n -> EnvEntries] : n \in 0..MaxEnvLen}

\* The upper-case form of a letter of the entries; the flag i of the
\* pattern compares letters by it.
UpperCase(c) ==
    CASE c = "a" -> "A" [] c = "p" -> "P" [] c = "d" -> "D" [] c = "t" -> "T"
      [] OTHER -> c

\* The characters "." of a pattern does not match.
LineTerminators == {"\n", "\r"}

\* A faulty pattern, /APPDATA=(.*)/i: it is not tied to the start.
PatternStart_Anywhere(entry) == 1..Len(entry)

\* Where /^APPDATA=(.*)/i may start to match: ^ ties it to the start.
PatternStart(entry) == {1}

\* "APPDATA=", the text of the pattern
PatternText == <<"A", "P", "P", "D", "A", "T", "A", "=">>

\* The positions of entry where the pattern matches.
MatchesAt(entry) ==
    {k \in PatternStart(entry) :
        /\ k + Len(PatternText) - 1 <= Len(entry)
        /\ \A j \in 1..Len(PatternText) :
              UpperCase(entry[k + j - 1]) = PatternText[j]}

\* The leftmost one.
MatchAt(entry) == CHOOSE k \in MatchesAt(entry) : \A m \in MatchesAt(entry) : k <= m

\* The longest run of characters from position k that are not line
\* terminators: what (.*) captures there.
RECURSIVE DotStar(_, _)
DotStar(chars, k) ==
    IF k > Len(chars) \/ chars[k] \in LineTerminators THEN <<>>
    ELSE <<chars[k]>> \o DotStar(chars, k + 1)

\* match[1] of env[n].match(/^APPDATA=(.*)/i)
Capture(entry) == DotStar(entry, MatchAt(entry) + Len(PatternText))

\* The loop of getUserDataDir from entry n on: the capture of the first
\* entry that matches, or null.
RECURSIVE AppDataFrom(_, _)
AppDataFrom(env, n) ==
    IF n > Len(env) THEN JsNull
    ELSE IF MatchesAt(env[n]) # {} THEN Str(Capture(env[n]))
    ELSE AppDataFrom(env, n + 1)

\* path.join(dir, name) for a dir that needs no normalising: one separator
\* between the two.
PathJoin(dir, name) ==
    IF Len(dir) > 0 /\ dir[Len(dir)] = "\\" THEN dir \o name
    ELSE dir \o <<"\\">> \o name

\* "GPII", the product folder
ProductFolder == <<"G", "P", "I", "I">>

\* appData && path.join(appData, "GPII"): null and the empty string are
\* falsy and returned as they are.
GetUserDataDir(env, processAppData) ==
    IF AppDataFrom(env, 1) = JsNull THEN JsNull
    ELSE IF AppDataFrom(env, 1)[2] = <<>> THEN Str(<<>>)
    ELSE Str(PathJoin(AppDataFrom(env, 1)[2], ProductFolder))

\* windows.getUserDataDir is applied to a token whose environment block is
\* fnIn[2], while process.env of the service has APPDATA or not (fnIn[3]).
GetUserDataDirCall == Returns("getUserDataDir", GetUserDataDir(fnIn[2], fnIn[3]))

InitDataDir ==
    ArgsInit({<<"getUserDataDir", env, processAppData>> :
                 env \in EnvBlocks, processAppData \in BOOLEAN})

SpecDataDir == InitDataDir /\ [][GetUserDataDirCall]_vars

(***************************************************************************)
(* ipc.execute: the startup information and the handles the child          *)
(* inherits.  Index i of a JavaScript array is position i + 1 of a         *)
(* sequence.                                                               *)
(***************************************************************************)
\* winapi.constants.FOPEN, the flag of an open file in the block
FOPEN == 1

\* What GetStdHandle may give: no handle (a service has no console), or one.
StdHandleValues == {0, MaxHandle + 1}

\* The standard handles tried: input, output, error.
StdHandles == StdHandleValues \X StdHandleValues \X StdHandleValues

\* options.inheritHandles: not given, or an array of handles.
NotGiven == <<"undefined">>
Given(handles) == <<"array", handles>>

\* The values of options.inheritHandles tried.
InheritOptions ==
    {NotGiven} \cup {Given(a) : a \in UNION {[1..n -> Handles] : n \in 0..MaxInherit}}

\* options.inheritHandles is truthy: any array is, an empty one too.
Supplied(inheritHandles) == inheritHandles # NotGiven

\* A faulty order: the caller's handles come first.
AllHandles_CallerFirst(std, inheritHandles) == inheritHandles \o std

\* allHandles = [hStdInput, hStdOutput, hStdError] followed by
\* options.inheritHandles
AllHandles(std, inheritHandles) == std \o inheritHandles

\* winapi.createHandleInheritStruct(count), zero-filled: the packed block
\* { int length; u8 flags[count]; HANDLE handle[count]; }
CreateHandleInheritStruct(count) ==
    [length |-> 0, flags |-> [i \in 1..count |-> 0],
     handle |-> [i \in 1..count |-> 0]]

\* The block after the loop of ipc.execute over allHandles.
HandleBlock(allHandles) ==
    [CreateHandleInheritStruct(Len(allHandles)) EXCEPT
        !.length = Len(allHandles),
        !.flags = [i \in 1..Len(allHandles) |-> FOPEN],
        !.handle = [i \in 1..Len(allHandles) |-> allHandles[i]]]

\* What ipc.execute hands to CreateProcessAsUserW for the handles: the
\* bInheritHandles argument, whether lpReserved2 points to a block and the
\* block, and the handles SetHandleInformation was called on with
\* HANDLE_FLAG_INHERIT.
StartupOf(std, inheritHandles) ==
    IF Supplied(inheritHandles)
    THEN [bInheritHandles |-> TRUE,
          attached |-> TRUE,
          block |-> HandleBlock(AllHandles(std, inheritHandles[2])),
          marked |-> {AllHandles(std, inheritHandles[2])[i] :
                         i \in 1..Len(AllHandles(std, inheritHandles[2]))}]
    ELSE [bInheritHandles |-> FALSE,
          attached |-> FALSE,
          block |-> CreateHandleInheritStruct(0),
          marked |-> {}]

\* What the C runtime of the child makes of it: the handle behind file
\* descriptor fd, or 0 when the block gives none.
ChildFd(startup, fd) ==
    IF /\ startup.bInheritHandles
       /\ startup.attached
       /\ fd < startup.block.length
       /\ startup.block.flags[fd + 1] = FOPEN
    THEN startup.block.handle[fd + 1]
    ELSE 0

\* ipc.execute builds the startup information.
StartupCall == Returns("startup", StartupOf(fnIn[2], fnIn[3]))

InitStartup ==
    ArgsInit({<<"startup", std, inheritHandles>> :
                 std \in StdHandles, inheritHandles \in InheritOptions})

SpecStartup == InitStartup /\ [][StartupCall]_vars

(***************************************************************************)
(* ipc.connectToPipe: CreateFileW.async opens the client end in the thread *)
(* pool, and its callback settles the promise.  fnIn holds the call        *)
(* <<"connectToPipe", pipeName, the names servers listen on>>, fnOut the   *)
(* answer of CreateFileW and then the calls the callback made.             *)
(***************************************************************************)
\* winapi.constants.INVALID_HANDLE_VALUE
INVALID_HANDLE_VALUE == -1

\* Names of pipes servers can listen on.
PipeNames == {PipePrefix \o <<"a">>, PipePrefix \o <<"b">>}

\* The names the tests pass: a pipe name, a pipe name followed by a
\* backslash, "invalid" and null.
PipeNameArgs ==
    {Str(n) : n \in PipeNames}
      \cup {Str(PipePrefix \o <<"a", "\\">>),
            Str(<<"i", "n", "v", "a", "l", "i", "d">>),
            JsNull}

\* winapi.stringToWideChar: string + "\u0000", without the terminator; null
\* is converted to the text "null".
StringToWideChar(string) ==
    IF string = JsNull THEN <<"n", "u", "l", "l">> ELSE string[2]

\* kernel32.CreateFileW with OPEN_EXISTING, as the callback sees it: the
\* handle of the client end when a server listens on that name; otherwise
\* the invalid handle, no handle, or an error of the call.
CreateFileAnswers(lpFileName, listening) ==
    IF lpFileName \in listening
    THEN {<<"ok", pipeHandle>> : pipeHandle \in 1..MaxHandle}
    ELSE {<<"ok", INVALID_HANDLE_VALUE>>, <<"ok", 0>>, <<"err">>}

\* A faulty test: only a missing handle counts as a failure.
NoHandle_ZeroOnly(pipeHandle) == pipeHandle = 0

\* pipeHandle === winapi.constants.INVALID_HANDLE_VALUE || !pipeHandle
NoHandle(pipeHandle) ==
    pipeHandle = INVALID_HANDLE_VALUE \/ pipeHandle = 0

\* The callback of CreateFileW.async: the calls it makes on the promise.
ConnectCallbackOf(answer) ==
    IF answer[1] = "err"
    THEN << <<"reject">> >>
    ELSE IF NoHandle(answer[2])
    THEN << <<"reject">> >>
    ELSE << <<"resolve", answer[2]>> >>

\* CreateFileW completes in the thread pool.
CreateFileDone ==
    /\ fnIn[1] = "connectToPipe"
    /\ fnOut = <<>>
    /\ \E answer \in CreateFileAnswers(StringToWideChar(fnIn[2]), fnIn[3]) :
          fnOut' = <<answer>>
    /\ UNCHANGED fnIn
    /\ UNCHANGED <<processVars, ipcVars, connVars, lifeVars>>

\* The callback runs on the event loop.
ConnectCallback ==
    /\ fnIn[1] = "connectToPipe"
    /\ Len(fnOut) = 1
    /\ fnOut' = <<fnOut[1], ConnectCallbackOf(fnOut[1])>>
    /\ UNCHANGED fnIn
    /\ UNCHANGED <<processVars, ipcVars, connVars, lifeVars>>

InitPipe ==
    ArgsInit({<<"connectToPipe", pipeName, listening>> :
                 pipeName \in PipeNameArgs, listening \in SUBSET PipeNames})

NextPipe ==
    \/ CreateFileDone
    \/ ConnectCallback

SpecPipe == InitPipe /\ [][NextPipe]_vars

(***************************************************************************)
(* gpii-connection.js: the TCP listener, the peer check at accept time and *)
(* the messages of an accepted connection.  A socket is followed from the  *)
(* "connection" event of the server to its close.                          *)
(***************************************************************************)
\* The message types tried: the two the switch of gotMessage names, the
\* reply type, and one it does not know.
MessageTypes == {"ping", "error", "pong", "hello"}

\* The payloads tried.
Payloads == {"a", "b"}

\* The pid of the spawned child is stored in gpiiConnection.pid: the peer
\* check compares with it.  No file under src/ has the assignment.
SetConnectionPid(p) ==
    /\ p # SelfPid
    /\ connectionPid # p
    /\ connectionPid' = p
    /\ log' = <<>> /\ emitted' = <<>> /\ sent' = <<>>
    /\ UNCHANGED <<connSocket, serviceSocket, connServers, connServer, sockets>>
    /\ UNCHANGED <<hostVars, ipcVars, fnVars, lifeVars>>

\* gpiiConnection.listen: a new server is made, stored in
\* gpiiConnection.server, and listens on a port of 127.0.0.1.
ConnListen ==
    /\ connServers < MaxServers
    /\ connServers' = connServers + 1
    /\ connServer' = "listening"
    /\ log' = <<>> /\ emitted' = <<>> /\ sent' = <<>>
    /\ UNCHANGED <<connectionPid, connSocket, serviceSocket, sockets>>
    /\ UNCHANGED <<hostVars, ipcVars, fnVars, lifeVars>>

\* A faulty test: no connection is turned away.
Rejects_Never(valid) == FALSE

\* connected: if (!valid)
Rejects(valid) == valid = 0

\* connected got past the check: it returned and the test let it through.
Accepts(valid) == valid # Throws /\ ~Rejects(valid)

\* gpiiConnection.connectionClosed, the listener connected passes to
\* service.socket.on("close", ...): the module does not define it, and the
\* emitter throws a TypeError for a listener that is not a function.
ConnectionClosedDefined == FALSE

\* gpiiConnection.connected(socket), the "connection" handler of a listening
\* server, for a connection the TCP table gives to localPid and remotePid.
\* Rejected: a warning and socket.end().  Accepted: gpiiConnection.server is
\* closed, the socket is stored in service.socket and gotMessage attached;
\* attaching the close listener throws, so "connected" is not emitted.  When
\* the check itself throws nothing else is done.
Connected(s, current, parentOf, found, localPid, remotePid) ==
    /\ IF current THEN connServer = "listening"
       ELSE connServers > (IF connServer = "listening" THEN 1 ELSE 0)
    /\ sockets[s].state = "none"
    /\ found \/ (localPid = Undefined /\ remotePid = Undefined)
    /\ LET valid == CheckConnection(parentOf, found, localPid, remotePid,
                                    connectionPid)
       IN  /\ sockets' = [sockets EXCEPT ![s] =
                [state |-> IF Rejects(valid) THEN "ended" ELSE "open",
                 peer |-> remotePid,
                 valid |-> valid,
                 handlers |-> Accepts(valid),
                 current |-> current]]
           /\ connServer' = IF Accepts(valid) THEN "closed" ELSE connServer
           /\ connServers' = IF Accepts(valid) /\ connServer = "listening"
                             THEN connServers - 1 ELSE connServers
           /\ serviceSocket' = IF Accepts(valid) THEN s ELSE serviceSocket
           /\ log' = IF valid = Throws THEN <<"uncaughtException">>
                     ELSE IF Rejects(valid)
                     THEN <<"Rejected connection from unknown source.">>
                     ELSE IF ConnectionClosedDefined
                     THEN <<"Accepted connection from GPII process.">>
                     ELSE <<"Accepted connection from GPII process.",
                            "uncaughtException">>
           /\ emitted' = IF Accepts(valid) /\ ConnectionClosedDefined
                         THEN << <<EventName("gpiiConnection", "connected"), "none">> >>
                         ELSE <<>>
    /\ sent' = <<>>
    /\ UNCHANGED <<connectionPid, connSocket>>
    /\ UNCHANGED <<hostVars, ipcVars, fnVars, lifeVars>>

\* gpiiConnection.sendMessage(type, payload) can send: it uses
\* gpiiConnection.socket, and throws a TypeError while that is null.
CanSend == connSocket # Null

\* gotMessage: the case of the switch that replies
Replies(type) == type = "ping"

\* gpiiConnection.gotMessage(message): a ping is answered with a pong of the
\* same payload, and the message is republished as message.<type>; when
\* sendMessage throws, the handler ends there.
GotMessage(type, payload) ==
    IF Replies(type) /\ ~CanSend
    THEN /\ log' = <<"uncaughtException">>
         /\ emitted' = <<>>
         /\ sent' = <<>>
    ELSE /\ log' = <<>>
         /\ emitted' = << <<EventName("gpiiConnection", "message." \o type), payload>> >>
         /\ sent' = IF Replies(type) THEN << <<connSocket, "pong", payload>> >>
                    ELSE <<>>

\* The peer of socket s sends a message of the given type and payload.  The
\* "message" listener runs if connected attached it; without one the frame
\* is read by nobody.
Message(s, type, payload) ==
    /\ sockets[s].state \in {"open", "ended"}
    /\ IF sockets[s].handlers
       THEN GotMessage(type, payload)
       ELSE log' = <<>> /\ emitted' = <<>> /\ sent' = <<>>
    /\ fnIn' = <<"message", s, type, payload>>
    /\ fnOut' = Null
    /\ UNCHANGED <<connectionPid, connSocket, serviceSocket, connServers,
                   connServer, sockets>>
    /\ UNCHANGED <<hostVars, ipcVars, lifeVars>>

\* The peer closes its end: the connection is over.
PeerClose(s) ==
    /\ sockets[s].state \in {"open", "ended"}
    /\ sockets' = [sockets EXCEPT ![s].state = "closed"]
    /\ log' = <<>> /\ emitted' = <<>> /\ sent' = <<>>
    /\ UNCHANGED <<connectionPid, connSocket, serviceSocket, connServers,
                   connServer>>
    /\ UNCHANGED <<hostVars, ipcVars, fnVars, lifeVars>>

NextConn ==
    \/ \E p \in ConnPids : SetConnectionPid(p)
    \/ ConnListen
    \/ \E s \in SocketIds, current \in BOOLEAN, parentOf \in ParentMaps,
          found \in BOOLEAN,
          localPid \in {Undefined} \cup ConnPids,
          remotePid \in {Undefined} \cup ConnPids :
          Connected(s, current, parentOf, found, localPid, remotePid)
    \/ \E s \in SocketIds, type \in MessageTypes, payload \in Payloads :
          Message(s, type, payload)
    \/ \E s \in SocketIds : PeerClose(s)

SpecConn == InitFn /\ [][NextConn]_vars

(***************************************************************************)
(* The lifetime of a child, step by step: CreateProcessAsUserW creates the *)
(* process inside ipc.startProcess, the success callback of startGPII runs *)
(* on a later turn of the event loop, and the process may connect, send    *)
(* and end at any time in between or after.                                *)
(***************************************************************************)
\* The pids given to the processes created: not the pid of this process.
ChildPids == Pids \ {SelfPid}

\* Processes that are not children of the supervisor and may connect.
Outsiders == ConnPids \ ChildPids

\* The process tree the peer check runs on: no process has its parent in
\* ConnPids.
NoParents == [q \in ConnPids |-> 0]

\* A faulty supervisor: the handle is waited for from the creation on.
Waited_FromCreation(p, pending) == TRUE

\* windows.waitForProcessTermination(proc.processHandle) is called by the
\* success callback: the handle of a process whose callback is pending is
\* not waited for.
Waited(p, pending) == p \notin pending

\* The promise of ipc.startProcess settles.  Rejected (createPipe rejects,
\* or ipc.execute throws): the rejection handler logs the error.
\* Resolved: CreateProcessAsUserW created process p and the success
\* callback is queued.
LifeCreate(pipeOk, createOk, p) ==
    /\ Started
    /\ inflight > Cardinality(created)
    /\ IF pipeOk /\ CanExecute(isService) /\ createOk
       THEN /\ p \in ChildPids
            /\ p \notin live \cup exited \cup created \cup startedPids
            /\ children' = children \cup {p}
            /\ created' = created \cup {p}
            /\ log' = <<>>
            /\ UNCHANGED inflight
       ELSE /\ p = 1
            /\ inflight' = inflight - 1
            /\ log' = <<"logError">>
            /\ UNCHANGED <<children, created>>
    /\ emitted' = <<>>
    /\ scheduled' = Null
    /\ UNCHANGED <<status, isService, consoleUser, pidFile, externals, exited>>
    /\ UNCHANGED <<pid, startingGPII, sinceStart, restartCount, timers>>
    /\ UNCHANGED <<startedPids, killed, modules>>
    /\ UNCHANGED <<ipcVars, fnVars, connVars>>

\* The success callback of startGPII runs for the process p: the pid is
\* recorded, the process handle is waited for (a handle already signalled
\* resolves the wait at once), started-gpii is emitted and the flag
\* cleared.
LifeStarted(p) ==
    /\ Started
    /\ p \in created
    /\ created' = created \ {p}
    /\ startedPids' = startedPids \cup {p}
    /\ UNCHANGED <<killed, modules>>
    /\ inflight' = inflight - 1
    /\ pid' = p
    /\ exited' = IF p \in children THEN exited ELSE exited \cup {p}
    /\ startingGPII' = FALSE
    /\ emitted' = << <<EventName("gpiiProcess", "started-gpii"), ToString(p)>> >>
    /\ log' = <<>>
    /\ scheduled' = Null
    /\ UNCHANGED <<status, isService, consoleUser, pidFile, children, externals>>
    /\ UNCHANGED <<sinceStart, restartCount, timers>>
    /\ UNCHANGED <<ipcVars, fnVars, connVars>>

\* A child ends, before or after its callback has run.
LifeChildExit(p, clean) ==
    /\ status # "stopped"
    /\ p \in children
    /\ children' = children \ {p}
    /\ exited' = IF Waited(p, created) THEN exited \cup {p} ELSE exited
    /\ pidFile' = IF clean /\ pidFile = p THEN Absent ELSE pidFile
    /\ UNCHANGED <<status, isService, consoleUser, externals>>
    /\ log' = <<>> /\ emitted' = <<>> /\ scheduled' = Null
    /\ UNCHANGED supVars
    /\ UNCHANGED lifeVars
    /\ UNCHANGED <<ipcVars, fnVars, connVars>>

\* The pid the supervisor recorded is stored in gpiiConnection.pid.
LifeSetConnectionPid ==
    /\ Truthy(pid)
    /\ SetConnectionPid(pid)

\* A live process connects to the listening server.
LifeConnected(s, current, remotePid) ==
    /\ remotePid \in children \cup Outsiders
    /\ Connected(s, current, NoParents, TRUE, SelfPid, remotePid)

NextLife ==
    \/ ServiceStart
    \/ \E pipeOk \in BOOLEAN, createOk \in BOOLEAN, p \in Pids :
          LifeCreate(pipeOk, createOk, p)
    \/ \E p \in Pids : LifeStarted(p)
    \/ \E p \in Pids, clean \in BOOLEAN : LifeChildExit(p, clean)
    \/ \E p \in Pids : GpiiStopped(p, FALSE)
    \/ LifeSetConnectionPid
    \/ ConnListen
    \/ \E s \in SocketIds, current \in BOOLEAN, remotePid \in ConnPids :
          LifeConnected(s, current, remotePid)
    \/ \E s \in SocketIds, type \in {"hello", "ping"} : Message(s, type, "a")
    \/ \E s \in SocketIds : PeerClose(s)

SpecLife == InitFn /\ [][NextLife]_vars

(***************************************************************************)
(* Steps of the supervisor, told by what they change.                      *)
(***************************************************************************)
\* gpiiStopped ran: only it takes a termination notification away.
ExitHandled == exited' # exited /\ exited' \subseteq exited

\* The exit handler treated the exit as a crash: only then does it touch the
\* failure count or call setTimeout.
ClassifiedCrash == ExitHandled /\ (restartCount' # restartCount \/ scheduled' # Null)

\* The supervisor can read the desktop user's pid file: there is a user token.
Readable == GetDesktopUser(isService) # NoToken

\* A step in which ipc.startProcess is called: a pipe is being created.
SpawnBegins == inflight' = inflight + 1

\* A step in which startGPII got past its checks and set the flag.
AttemptBegins == ~startingGPII /\ startingGPII'

\* The service control handler ran for sessionchange/session-logon.
LogonStep == emitted' = << <<"svc-sessionchange", "session-logon">> >>

\* A restart timer fired.
TimerStep == timers' = timers - 1

\* service.start ran.
ServiceStartStep == status = "init" /\ status' = "started"

\* The stop control arrived: service.stop ran.
StopStep == status = "started" /\ status' = "stopped"

\* The promise of ipc.startProcess was rejected.
SpawnFailed == inflight' = inflight - 1 /\ children' = children

(***************************************************************************)
(* C1.  At most one supervised child is alive at any time: the supervisor  *)
(* never creates a second child while one it spawned is still running.     *)
(* Stated as the claim has it; the code breaks it (startGPII looks at the   *)
(* flag and the pid file only, never at gpiiProcess.pid).                  *)
(***************************************************************************)
C1_AtMostOneChild == Cardinality(children) <= 1

(***************************************************************************)
(* C3.  Consecutive fast failures.  An exit is a fast crash when the pid   *)
(* file names the recorded child and less than 20 s have passed since the  *)
(* start was recorded.                                                     *)
(***************************************************************************)
FastCrash ==
    /\ ExitHandled
    /\ Readable
    /\ pidFile \in Pids
    /\ pidFile = pid
    /\ sinceStart < 20

C4_BackoffDelay ==
    [][/\ (scheduled' # Null) => (scheduled' = restartCount' * 10000 + 1000)
       /\ (timers' > timers) <=> (scheduled' # Null)
       /\ (timers' > timers) => (timers' = timers + 1 /\ ExitHandled)]_vars

\* A restart was just scheduled 21 s ahead, at the second fast failure.
C4_Witness == scheduled = 21000 /\ restartCount = 2 /\ timers > 0

(***************************************************************************)
(* C5.  A crash (the pid file still names the recorded child) after at     *)
(* least 20 s of life resets the failure count to 0 and schedules the next *)
(* spawn 1 s ahead, for every runtime of 20 s or more, exactly 20 s        *)
(* included, whatever the count was.  Stated as the claim has it; the code *)
(* tests seconds > 20, so a runtime of 20 s counts as a failed start.      *)
(***************************************************************************)
C5_HealthyRunResets ==
    [][(ExitHandled /\ Readable /\ pidFile \in Pids /\ pidFile = pid /\ sinceStart >= 20)
        => (restartCount' = 0 /\ scheduled' = 1000 /\ timers' = timers + 1)]_vars

(***************************************************************************)
(* C6.  Once the supervisor has given up, no timer and no child exit       *)
(* issues a spawn until a session-logon event arrives, and the next        *)
(* session-logon event then begins a spawn (no other instance being        *)
(* detected).  The supervisor has given up when the failure count is above *)
(* the limit and it neither has a child nor is starting one.  Stated as    *)
(* the claim has it; the code never cancels the timers set before.         *)
(***************************************************************************)
GivenUp ==
    /\ status = "started"
    /\ restartCount > MaxFailedStarts
    /\ pid = Null
    /\ ~startingGPII
    /\ inflight = 0

C6_NoSpawnAfterGivingUp ==
    [][GivenUp =>
        /\ SpawnBegins => LogonStep
        /\ (LogonStep /\ Readable /\ ~(pidFile \in live)) => SpawnBegins]_vars

C2_NoOverlap ==
    [][/\ (inflight > 0) => ~(AttemptBegins \/ SpawnBegins)
       /\ inflight' <= 1
       /\ (children' \ children # {}) => (inflight = 1 /\ inflight' = 0)]_vars

(***************************************************************************)
(* C8.  A call of startGPII (from service.start, session-logon or a        *)
(* restart timer) made while the desktop user's pid file names a live      *)
(* process begins no attempt and leaves the flag and the recorded pid as   *)
(* they are; when the file is absent, unparsable, names pid 0 or names a   *)
(* process that is not running, and no attempt is in progress, the call    *)
(* begins an attempt.                                                      *)
(***************************************************************************)
\* startGPII is called in this step, and the user's pid file can be read.
StartCalled ==
    \/ ServiceStartStep /\ (~isService' \/ consoleUser)
    \/ (LogonStep \/ TimerStep) /\ Readable

C8_ExternalInstance ==
    [][StartCalled =>
        /\ (pidFile \in Pids /\ pidFile \in live) =>
              /\ inflight' = inflight
              /\ startingGPII' = startingGPII
              /\ pid' = pid
              /\ children' = children
        /\ (~(pidFile \in Pids /\ pidFile \in live) /\ ~startingGPII) =>
              AttemptBegins]_vars

\* A session-logon was turned away because the pid file names a live
\* process that is not a child of the supervisor.
C8_Witness ==
    /\ log = ControlLog("sessionchange", "session-logon") \o <<"GPII is already running.">>
    /\ ~startingGPII
    /\ inflight = 0
    /\ pidFile \in externals

(***************************************************************************)
(* C9.  A start request from service.start or session-logon begins a spawn *)
(* attempt only if a user is logged on at the console or the host is not a *)
(* service.  Stated as the claim has it; sessionChange calls startGPII     *)
(* without asking.                                                         *)
(***************************************************************************)
C9_StartOnlyWithUser ==
    [][((ServiceStartStep \/ LogonStep) /\ SpawnBegins)
        => (consoleUser \/ ~isService')]_vars

(***************************************************************************)
(* C10.  Every control code is republished on the bus as svc-<name> with   *)
(* its event type; of the sessionchange sub-events only session-logon      *)
(* calls startGPII, and every other one leaves the recorded pid, the flag, *)
(* the attempt in flight, the start time, the failure count and the timers *)
(* unchanged.                                                              *)
(***************************************************************************)
C10_ControlRepublished ==
    [][(log' # <<>>) =>
        \A ce \in ControlCodes :
          (log'[1] = LogControl(ce[1], ce[2])) =>
            /\ emitted'[1] = <<"svc-" \o ce[1], ce[2]>>
            /\ (ce[1] = "sessionchange" /\ ce[2] # "session-logon") =>
                  /\ UNCHANGED supVars
                  /\ log' = <<log'[1], "session change " \o ce[2]>>
            /\ (ce[1] = "sessionchange" /\ ce[2] = "session-logon") =>
                  /\ Len(log') = 3
                  /\ log'[3] \in {"Starting GPII", "GPII is already running.",
                                  "uncaughtException"}
                  /\ SpawnBegins <=> (log'[3] = "Starting GPII")
            /\ (ce[1] # "sessionchange") =>
                  (UNCHANGED supVars /\ Len(log') = 1)]_vars

\* A session-lock was republished and nothing was started.
C10_Witness ==
    /\ emitted = << <<"svc-sessionchange", "session-lock">> >>
    /\ log = <<"Service control: sessionchange session-lock",
               "session change session-lock">>

(***************************************************************************)
(* C11.  A stop received while the supervisor records a child kills that   *)
(* child and clears the recorded pid; a stop always leaves the recorded    *)
(* pid clear.  Stated as the claim has it; nothing listens for the stop    *)
(* event, so stopGPII is not called.                                       *)
(***************************************************************************)
C11_StopKillsChild ==
    [][StopStep =>
        /\ pid' = Null
        /\ (pid \in children) => (pid \notin children')]_vars

C13_FailureCounted ==
    [][SpawnFailed =>
        /\ log' # <<>>
        /\ ~startingGPII'
        /\ restartCount' = OrZero(restartCount) + 1
        /\ timers' = timers + 1
        /\ scheduled' = RestartDelay(restartCount')]_vars

(***************************************************************************)
(* Steps of gpii-ipc.js.                                                   *)
(***************************************************************************)
\* createPipe resolved in this step, so ipc.execute ran.
Executes == cp.promise = "pending" /\ cp'.promise = "resolved"

\* The function applied last.
Applied(name) == Len(fnIn) > 0 /\ fnIn[1] = name

(***************************************************************************)
(* C14.  After every operation that acquires the desktop user's token      *)
(* (isUserLoggedOn, readPidFile, execute), whether it returns or throws,   *)
(* no token handle is left open, and CloseHandle has never been called     *)
(* with 0 or with a token already closed.                                  *)
(***************************************************************************)
C14_TokensClosedOnce == tokens = 0 /\ ~closedZero

\* ipc.execute has just thrown while it held a user token.
C14_Witness ==
    /\ Applied("execute")
    /\ fnOut = Throws
    /\ GetDesktopUser(cp.svc) # NoToken

(***************************************************************************)
(* C15.  Once createPipe has resolved and ipc.execute has been called,     *)
(* whether it created the process or threw, this process holds no open     *)
(* client-side pipe handle.  Stated as the claim has it; neither           *)
(* ipc.execute nor ipc.startProcess closes the handle.                     *)
(***************************************************************************)
C15_ClientHandleClosed == (cp.promise = "resolved") => (clientHandles = 0)

(***************************************************************************)
(* C16.  createPipe is resolved only when both pipe.serverConnection and   *)
(* pipe.clientHandle are set, whichever came first, and resolve is called  *)
(* at most once.                                                           *)
(***************************************************************************)
C16_ResolvesWithBothHalves ==
    /\ (cp.promise = "resolved") => (cp.serverConnection /\ cp.clientHandle)
    /\ cp.resolves <= 1
    /\ (cp.resolves = 1) <=> (cp.promise = "resolved")

\* The client handle came first and the connection resolved the promise.
C16_Witness ==
    /\ cp.promise = "resolved"
    /\ cp.resolvedBy = "connection"
    /\ cp.serverConnection /\ cp.clientHandle

(***************************************************************************)
(* C17.  When createPipe has rejected, the server is not listening and no  *)
(* client handle of the call is open.  Stated as the claim has it; the     *)
(* code closes the server only in the "connection" handler.                *)
(***************************************************************************)
C17_RejectClosesOtherHalf ==
    (cp.promise = "rejected") =>
        /\ cp.server # "listening"
        /\ cp.client # "opened"
        /\ ~cp.clientHandle

(***************************************************************************)
(* C19.  When ipc.execute runs without a user token it creates no process  *)
(* and throws unless alwaysRun is set, and with alwaysRun it creates the   *)
(* process with token 0; a call made by startGPII on a host that is a      *)
(* service never creates a process with token 0.                           *)
(***************************************************************************)
C19_NoProcessAsLocalSystem ==
    [][Executes =>
        /\ (GetDesktopUser(cp.svc) = NoToken /\ ~cp.alwaysRun) =>
              (procToken' = Null /\ fnOut' = Throws)
        /\ (GetDesktopUser(cp.svc) = NoToken /\ cp.alwaysRun
                /\ fnIn'[4] /\ fnIn'[5]) =>
              (procToken' = NoToken /\ fnOut' # Throws)
        /\ (cp.caller = "startGPII" /\ cp.svc) => (procToken' # NoToken)]_vars

\* startGPII asked for a process on a service host with nobody logged on,
\* and ipc.execute threw.
C19_Witness ==
    /\ Applied("execute")
    /\ cp.caller = "startGPII"
    /\ cp.svc
    /\ ~consoleUser
    /\ fnOut = Throws
    /\ procToken = Null

(***************************************************************************)
(* C18.  getDesktopUser returns the token of this process when the host is *)
(* not a service (and OpenProcessToken succeeds); on a service it returns  *)
(* 0 when the console session id is 0xFFFFFFFF or when WTSQueryUserToken   *)
(* fails with NO_TOKEN (1008), SUCCESS (0), ACCESS_DENIED (5) or           *)
(* PRIVILEGE_NOT_HELD (1314), and throws an error carrying the code for    *)
(* every other failure code.                                               *)
(***************************************************************************)
C18_SoftErrorsGiveNoUser ==
    Applied("getDesktopUser") =>
        /\ (~fnIn[2] /\ fnIn[3]) => (fnOut = fnIn[4])
        /\ (fnIn[2] /\ fnIn[5] = NoSession) => (fnOut = 0)
        /\ (fnIn[2] /\ fnIn[5] # NoSession /\ ~fnIn[6]) =>
              IF fnIn[8] \in {1008, 0, 5, 1314}
              THEN fnOut = 0
              ELSE fnOut = Win32Error(fnIn[8])

\* On a service, the query failed with ACCESS_DENIED and 0 was returned.
C18_Witness ==
    /\ Applied("getDesktopUser")
    /\ fnIn[2] /\ fnIn[5] = 1 /\ ~fnIn[6] /\ fnIn[8] = 5
    /\ fnOut = 0

\* q is p or an ancestor of p within n parent links in the tree parentOf.
RECURSIVE WithinLinks(_, _, _, _)
WithinLinks(parentOf, p, q, n) ==
    IF p = q THEN TRUE
    ELSE IF n = 0 \/ p \notin ConnPids THEN FALSE
    ELSE WithinLinks(parentOf, parentOf[p], q, n - 1)

(***************************************************************************)
(* C20.  A connection is accepted if and only if the TCP table gives its   *)
(* local end to this process and its remote end to the child or to a       *)
(* descendant of the child within 5 parent links.  Stated as the claim has *)
(* it.                                                                     *)
(***************************************************************************)
C20_AcceptsChildOrDescendant ==
    Applied("checkConnection") =>
        ((fnOut = 1) <=>
            /\ fnIn[3]
            /\ fnIn[4] = SelfPid
            /\ fnIn[5] \in ConnPids
            /\ WithinLinks(fnIn[2], fnIn[5], fnIn[6], 5))

\* The "connection" handler ran for socket s.
ConnectedStep(s) == sockets[s].state = "none" /\ sockets'[s].state # "none"

\* A message arrived on socket s.
MessageStep(s) ==
    /\ UNCHANGED <<sockets, connServers, connectionPid>>
    /\ fnIn' # <<>>
    /\ fnIn'[1] = "message"
    /\ fnIn'[2] = s

\* The events of the connection module that the step just taken emitted.
ConnectedEvents == {i \in 1..Len(emitted) : emitted[i][1] = "gpiiConnection.connected"}
MessageEvents ==
    {i \in 1..Len(emitted) :
        \E type \in MessageTypes : emitted[i][1] = "gpiiConnection.message." \o type}

(***************************************************************************)
(* C21.  For every connection that fails the peer check (checkConnection   *)
(* returns a falsy value), the socket is closed (socket.end), no connected *)
(* event is emitted, and no message.* event is ever emitted for anything   *)
(* that peer sends: the socket never gets the message listener.  A check   *)
(* that throws instead of returning gives no event and no listener either, *)
(* but leaves the socket open.                                             *)
(***************************************************************************)
C21_RejectedPeerClosed ==
    [][\A s \in SocketIds :
         /\ sockets'[s].valid = 0 => sockets'[s].state \in {"ended", "closed"}
         /\ sockets'[s].valid \in {0, Throws} =>
              /\ ~sockets'[s].handlers
              /\ serviceSocket' # s
              /\ (ConnectedStep(s) \/ MessageStep(s)) =>
                   (ConnectedEvents' = {} /\ MessageEvents' = {})]_vars

\* A peer that was turned away has sent a message, while another connection
\* was accepted.
C21_Witness ==
    /\ fnIn # <<>>
    /\ fnIn[1] = "message"
    /\ sockets[fnIn[2]].valid = 0
    /\ sockets[fnIn[2]].state = "ended"
    /\ \E s \in SocketIds : sockets[s].handlers

(***************************************************************************)
(* C22.  For every ping message received from the connected child, the     *)
(* supervisor sends back exactly one pong message carrying the same        *)
(* payload on the accepted connection.  Stated as the claim has it; the    *)
(* code breaks it: sendMessage writes to gpiiConnection.socket, which is   *)
(* null, as connected stores the socket in service.socket.                 *)
(***************************************************************************)
C22_PingAnsweredWithPong ==
    [][\A s \in SocketIds :
         (MessageStep(s) /\ sockets[s].handlers /\ fnIn'[3] = "ping") =>
            sent' = << <<s, "pong", fnIn'[4]>> >>]_vars

(***************************************************************************)
(* C23.  Every message received on an accepted connection, whatever its    *)
(* type (unknown types, error and ping included), is republished exactly   *)
(* once on the event bus as message.<type> with the received payload; an   *)
(* unknown type raises no error and an error message has no other effect.  *)
(* Stated as the claim has it; the code breaks it for ping, where the      *)
(* handler ends in sendMessage before it republishes.                      *)
(***************************************************************************)
C23_EveryMessageRepublished ==
    [][\A s \in SocketIds :
         (MessageStep(s) /\ sockets[s].handlers) =>
            /\ emitted' = << <<"gpiiConnection.message." \o fnIn'[3], fnIn'[4]>> >>
            /\ fnIn'[3] # "ping" => (log' = <<>> /\ sent' = <<>>)]_vars

\* The step just taken emitted started-gpii.
StartedEmitted ==
    \E i \in 1..Len(emitted) : emitted[i][1] = "gpiiProcess.started-gpii"

(***************************************************************************)
(* C24.  Every successful spawn returns a non-zero numeric pid and a       *)
(* non-null process handle, and startProcess additionally returns the      *)
(* server side of the pipe; whenever started-gpii is emitted the           *)
(* supervisor's recorded child pid equals the pid of the process just      *)
(* created.                                                                *)
(***************************************************************************)
C24_SpawnReturnsPidAndHandle ==
    [][/\ (Applied("execute")' /\ fnOut' # Thrown) =>
            /\ fnOut'[1] \in Nat \ {0}
            /\ fnOut'[2] \notin {0, Null}
       /\ (Applied("startProcess")' /\ fnOut' # Thrown) =>
            /\ fnOut'[1] = fnIn'[2]
            /\ fnOut'[1] \notin {0, Null}
            /\ fnOut'[2] \in Nat \ {0}
            /\ fnOut'[3] \notin {0, Null}
       /\ StartedEmitted' =>
            /\ children' \ children = {pid'}
            /\ pid' = fnOut'[2]
            /\ emitted' = << <<"gpiiProcess.started-gpii", ToString(pid')>> >>]_vars

\* startProcess has resolved for a second child and started-gpii was emitted.
C24_Witness ==
    /\ Applied("startProcess")
    /\ fnOut # Thrown
    /\ StartedEmitted
    /\ pid = fnOut[2]
    /\ Cardinality(children) = 2

\* The longest pipe name allowed.
MaxPipeNameLength == 256

(***************************************************************************)
(* C25.  For every possible 18-byte random input, generatePipeName returns *)
(* a name that begins with the pipe prefix \\.\pipe\, is at most 256       *)
(* characters long, and whose part after the prefix is at least one        *)
(* character long and contains neither a slash nor a backslash.            *)
(***************************************************************************)
C25_PipeNameWellFormed ==
    (fnIn[1] = "generatePipeName" /\ fnOut # <<>>) =>
        /\ Len(fnIn[2]) = RandomByteCount
        /\ Len(fnOut[1]) >= Len(PipePrefix)
        /\ SubSeq(fnOut[1], 1, Len(PipePrefix)) = PipePrefix
        /\ Len(fnOut[1]) <= MaxPipeNameLength
        /\ Len(fnOut[1]) - Len(PipePrefix) >= 1
        /\ \A j \in (Len(PipePrefix) + 1)..Len(fnOut[1]) :
              fnOut[1][j] \notin {"/", "\\"}

\* A name was generated from bytes whose base64 text has a slash in it.
C25_Witness ==
    /\ fnIn[1] = "generatePipeName"
    /\ fnOut # <<>>
    /\ \E j \in 1..Len(Base64(fnIn[2])) : Base64(fnIn[2])[j] = "/"
    /\ \E j \in 1..Len(Base64(fnIn[2])) : Base64(fnIn[2])[j] = "+"

\* The name of an entry: the characters before its first "=".
RECURSIVE EntryName(_)
EntryName(entry) ==
    IF entry = <<>> \/ Head(entry) = "=" THEN <<>>
    ELSE <<Head(entry)>> \o EntryName(Tail(entry))

\* The value of an entry: the characters after its first "=".
EntryValue(entry) == SubSeq(entry, Len(EntryName(entry)) + 2, Len(entry))

\* The entry is the variable APPDATA, in any case of the letters.
IsAppData(entry) ==
    /\ Len(EntryName(entry)) < Len(entry)
    /\ [j \in 1..Len(EntryName(entry)) |-> UpperCase(EntryName(entry)[j])]
         = <<"A", "P", "P", "D", "A", "T", "A">>

\* The entries of the block that are APPDATA.
AppDataEntries(env) == {n \in 1..Len(env) : IsAppData(env[n])}

\* The first of them.
FirstAppData(env) ==
    CHOOSE n \in AppDataEntries(env) : \A m \in AppDataEntries(env) : n <= m

\* The value up to its first line break.
RECURSIVE FirstLine(_)
FirstLine(chars) ==
    IF chars = <<>> \/ Head(chars) \in LineTerminators THEN <<>>
    ELSE <<Head(chars)>> \o FirstLine(Tail(chars))

\* getUserDataDir has returned for the block env.
DataDirReturned == fnIn[1] = "getUserDataDir" /\ fnOut # <<>>

(***************************************************************************)
(* C26, as the claim has it.  getUserDataDir returns the value of the      *)
(* first environment-block entry whose name is APPDATA, compared           *)
(* case-insensitively and matching the whole name (not LOCALAPPDATA or     *)
(* APPDATA2), joined with the product folder GPII; it returns a null       *)
(* result when the block has no such entry, and it never reads the         *)
(* service's own process environment.  Fails for an APPDATA entry whose    *)
(* value is empty (the empty string is returned) or has a line break.      *)
(***************************************************************************)
C26_DataDirFromBlock ==
    DataDirReturned =>
        fnOut[1] = IF AppDataEntries(fnIn[2]) = {} THEN JsNull
                   ELSE Str(PathJoin(EntryValue(fnIn[2][FirstAppData(fnIn[2])]),
                                     ProductFolder))

(***************************************************************************)
(* C26, amended.  getUserDataDir returns the value of the first            *)
(* environment-block entry whose name is APPDATA (case-insensitive, whole  *)
(* name), taken up to its first line break and joined with GPII, when that *)
(* text is not empty; it returns the empty string when it is empty, and    *)
(* null when the block has no such entry; the service's own process        *)
(* environment has no part in the result.                                  *)
(***************************************************************************)
C26_DataDirFromBlockFirstLine ==
    DataDirReturned =>
        fnOut[1] =
          IF AppDataEntries(fnIn[2]) = {} THEN JsNull
          ELSE IF FirstLine(EntryValue(fnIn[2][FirstAppData(fnIn[2])])) = <<>>
          THEN Str(<<>>)
          ELSE Str(PathJoin(FirstLine(EntryValue(fnIn[2][FirstAppData(fnIn[2])])),
                            ProductFolder))

\* The block has LOCALAPPDATA first and then APPDATA in mixed case, while
\* the service's own environment has an APPDATA too.
C26_Witness ==
    /\ DataDirReturned
    /\ fnIn[3]
    /\ Len(fnIn[2]) = 2
    /\ ~IsAppData(fnIn[2][1])
    /\ EntryName(fnIn[2][1]) # <<"P", "A", "T", "H">>
    /\ IsAppData(fnIn[2][2])
    /\ EntryName(fnIn[2][2]) # <<"A", "P", "P", "D", "A", "T", "A">>
    /\ fnOut[1] # JsNull

\* ipc.execute has built the startup information.
StartupBuilt == fnIn[1] = "startup" /\ fnOut # <<>>

(***************************************************************************)
(* C27.  When handles are supplied for inheritance, the handle-inheritance *)
(* blob lists stdin, stdout and stderr at indexes 0, 1, 2 and the i-th     *)
(* caller handle at index 3 + i, its count equals 3 plus the number of     *)
(* caller handles, every flag is FOPEN, every listed handle is marked      *)
(* inheritable, and bInheritHandles is true; when no handles are supplied  *)
(* bInheritHandles is false and no blob is attached.  The first caller     *)
(* handle is therefore the child's file descriptor 3.                      *)
(***************************************************************************)
C27_HandleBlockLayout ==
    StartupBuilt =>
      IF fnIn[3] # NotGiven
      THEN /\ fnOut[1].bInheritHandles
           /\ fnOut[1].attached
           /\ fnOut[1].block.length = 3 + Len(fnIn[3][2])
           /\ Len(fnOut[1].block.handle) = fnOut[1].block.length
           /\ Len(fnOut[1].block.flags) = fnOut[1].block.length
           /\ \A i \in 0..2 : fnOut[1].block.handle[i + 1] = fnIn[2][i + 1]
           /\ \A i \in 0..(Len(fnIn[3][2]) - 1) :
                 fnOut[1].block.handle[3 + i + 1] = fnIn[3][2][i + 1]
           /\ \A k \in 1..fnOut[1].block.length :
                 /\ fnOut[1].block.flags[k] = FOPEN
                 /\ fnOut[1].block.handle[k] \in fnOut[1].marked
           /\ Len(fnIn[3][2]) > 0 => ChildFd(fnOut[1], 3) = fnIn[3][2][1]
      ELSE /\ ~fnOut[1].bInheritHandles
           /\ ~fnOut[1].attached

\* Two different handles were supplied, by a process with standard handles.
C27_Witness ==
    /\ StartupBuilt
    /\ fnIn[3] # NotGiven
    /\ Len(fnIn[3][2]) = 2
    /\ fnIn[3][2][1] # fnIn[3][2][2]
    /\ fnIn[2][1] # 0
    /\ ChildFd(fnOut[1], 4) = fnIn[3][2][2]

(***************************************************************************)
(* C28                                                                     *)
(***************************************************************************)
\* The callback of connectToPipe has run.
ConnectSettled == fnIn[1] = "connectToPipe" /\ Len(fnOut) = 2

TerminationHandled(p) == p \in exited /\ p \notin exited'

C30_FlagClearedAfterAttempt == (inflight = 0) => ~startingGPII

(***************************************************************************)
(* C31                                                                     *)
(***************************************************************************)
\* The server the connection of socket s arrived on still listens:
\* connected closes gpiiConnection.server only, and nothing keeps a
\* reference to an earlier server.
AcceptingServerListens(s) ==
    IF sockets[s].current THEN connServer = "listening" ELSE TRUE

\* C31: the listening server accepts at most one authenticated connection
\* per listen: when connected accepts a connection, the server it arrived on
\* listens no more; when connected rejects one, every server that listened
\* goes on listening, so the child can still connect.
C31_OneConnectionPerListen ==
    [][\A s \in SocketIds :
         ConnectedStep(s) =>
            /\ sockets'[s].handlers => ~AcceptingServerListens(s)'
            /\ sockets'[s].valid = 0 =>
                  (connServers' = connServers /\ connServer' = connServer)]_vars

(***************************************************************************)
(* C32                                                                     *)
(***************************************************************************)
\* C32: an intentional stop is never treated as a crash.  When gpiiStopped
\* runs for a child stopGPII has killed, it schedules no restart and leaves
\* the failure count as it is, whatever the pid file holds; and stopGPII
\* sends a kill only when a child is recorded.
C32_StopIsNoCrash ==
    [][/\ \A p \in Pids :
            (TerminationHandled(p) /\ p \in killed) =>
               /\ restartCount' = restartCount
               /\ timers' = timers
               /\ scheduled' = Null
       /\ (killed' \ killed # {}) => Truthy(pid)]_vars

(***************************************************************************)
(* C33                                                                     *)
(***************************************************************************)
\* C33: for each spawned child gpiiStopped runs at most once, and only
\* after the process handle of that child was signalled: the child is a
\* process that has ended and whose wait was pending, and the wait is
\* pending no more afterwards.  Every run of gpiiStopped clears the pid the
\* supervisor records.
C33_ExitHandlerOnceAndClearsPid ==
    [][\A p \in Pids :
         TerminationHandled(p) =>
            /\ p \notin children
            /\ p \notin exited'
            /\ pid' = Null]_vars

(***************************************************************************)
(* C34                                                                     *)
(***************************************************************************)
\* C34: the count of consecutive failures is modified only by gpiiStopped
\* when it classifies the exit as a crash (the pid file holds the recorded
\* pid).  An exit classified as clean, a start request, a session change,
\* a timer and a spawn that succeeds or fails leave it as it is.
C34_CountChangesOnlyOnCrash ==
    [][/\ (restartCount' # restartCount) =>
            (ExitHandled /\ Readable /\ pidFile \in Pids /\ pidFile = pid)
       /\ (ServiceStartStep \/ LogonStep \/ TimerStep \/ StartedEmitted'
              \/ SpawnBegins \/ SpawnFailed) =>
            (restartCount' = restartCount)]_vars

\* A second consecutive crash at start has just been counted.
C34_Witness ==
    /\ log = <<"GPII stopped", "GPII failed at start.">>
    /\ restartCount = 2
    /\ pid = Null
    /\ exited = {}

(***************************************************************************)
(* windows.isParentPid with its depth argument, applied once.              *)
(***************************************************************************)
\* The largest depth passed
MaxDepth == 2

\* The depths tried: omitted, 0, and 1..MaxDepth.
Depths == {Undefined, 0} \cup 1..MaxDepth

\* The child pids tried: null, 0 and the processes.
ChildPidArgs == {Null, 0} \cup ConnPids

\* windows.isParentPid(childPid, parentPid, depth): depth = depth || 5, then
\* the walk from childPid.  1 for true, 0 for false, Throws when
\* getParentPid throws.
IsParentPidDepth(parentOf, childPid, parentPid, depth) ==
    IsParentPidFrom(parentOf, childPid, parentPid,
                    IF Truthy(depth) THEN depth ELSE 5)

\* windows.isParentPid is applied in the process tree fnIn[2].
IsParentPidCall ==
    Returns("isParentPid", IsParentPidDepth(fnIn[2], fnIn[3], fnIn[4], fnIn[5]))

InitParent ==
    ArgsInit({<<"isParentPid", parentOf, childPid, parentPid, depth>> :
                 parentOf \in ParentMaps, childPid \in ChildPidArgs,
                 parentPid \in ConnPids, depth \in Depths})

SpecParent == InitParent /\ [][IsParentPidCall]_vars

\* q is reached from p by between 1 and n parent links in the tree parentOf.
RECURSIVE ReachedByLinks(_, _, _, _)
ReachedByLinks(parentOf, p, q, n) ==
    IF n = 0 \/ p \notin ConnPids THEN FALSE
    ELSE IF parentOf[p] = q THEN TRUE
    ELSE ReachedByLinks(parentOf, parentOf[p], q, n - 1)

(***************************************************************************)
(* C35                                                                     *)
(***************************************************************************)
\* C35: isParentPid(childPid, parentPid, depth) returns, and returns true
\* if and only if parentPid is reached from childPid by between 1 and depth
\* parent links (5 when depth is omitted or 0), also when the parent-of
\* relation has a cycle; it returns false when childPid is null or 0.
C35_IsParentPidWithinDepth ==
    (Applied("isParentPid") /\ fnOut # <<>>) =>
        fnOut[1] = (IF ReachedByLinks(fnIn[2], fnIn[3], fnIn[4],
                                      IF Truthy(fnIn[5]) THEN fnIn[5] ELSE 5)
                    THEN 1 ELSE 0)

(***************************************************************************)
(* windows.getTcpConnectionPids, applied once to the table GetTcpTable2    *)
(* fills.  A port field of a row is a DWORD whose low 16 bits hold the     *)
(* port in network byte order.                                             *)
(***************************************************************************)
\* The most rows in the table
MaxRows == 2

\* winapi.constants.MIB_TCP_STATE_ESTAB
MIB_TCP_STATE_ESTAB == 5

\* The other states tried: MIB_TCP_STATE_LISTEN.
NotEstablished == {2}

\* winapi.errorCodes.ERROR_INSUFFICIENT_BUFFER
ERROR_INSUFFICIENT_BUFFER == 122

\* var localhost = 0x0100007F
Localhost == 16777343

\* The other addresses tried: 192.168.0.1.
NotLocalhost == {16820416}

\* A faulty conversion: the port is left in host byte order.
Htons_HostOrder(n) == n

\* htons(n): ((n & 0xff) << 8) | ((n >> 8) & 0xff)
Htons(n) == ((n % 256) * 256) + ((n \div 256) % 256)

\* The ports of the two ends of the socket, in host byte order.
PortArgs == {<<1, 2>>, <<2, 1>>}

\* The port fields tried: port 1 and port 2 in network byte order, port 256
\* in network byte order (which is port 1 in host order), and port 1 in
\* network byte order below upper bits that are not zero.
PortFields == {256, 512, 1, 65536 + 256}

\* The state and the two addresses of the rows tried.
RowKinds ==
    {<<MIB_TCP_STATE_ESTAB, Localhost, Localhost>>}
    \cup {<<state, Localhost, Localhost>> : state \in NotEstablished}
    \cup {<<MIB_TCP_STATE_ESTAB, Localhost, address>> : address \in NotLocalhost}
    \cup {<<MIB_TCP_STATE_ESTAB, address, Localhost>> : address \in NotLocalhost}

\* MIB_TCPROW2
TcpRows ==
    {[dwState |-> k[1], dwLocalAddr |-> k[2], dwLocalPort |-> lp,
      dwRemoteAddr |-> k[3], dwRemotePort |-> rp, dwOwningPid |-> p] :
        k \in RowKinds, lp \in PortFields, rp \in PortFields, p \in Pids}

\* The tables tried
TcpTables == UNION {[1..n -> TcpRows] : n \in 0..MaxRows}

\* The loop over the rows from row r on (1-based), with pidsTogo so far:
\* <<localPid, remotePid>>.
RECURSIVE PidsTogo(_, _, _, _, _)
PidsTogo(table, r, local, remote, togo) ==
    IF r > Len(table) THEN togo
    ELSE IF table[r].dwState # MIB_TCP_STATE_ESTAB
         THEN PidsTogo(table, r + 1, local, remote, togo)
    ELSE LET row == table[r]
             lp == row.dwLocalPort % 65536
             rp == row.dwRemotePort % 65536
         IN  IF /\ row.dwLocalAddr = local.address
                /\ row.dwRemoteAddr = remote.address
                /\ lp = local.port /\ rp = remote.port
             THEN IF Truthy(togo[2])
                  THEN <<row.dwOwningPid, togo[2]>>
                  ELSE PidsTogo(table, r + 1, local, remote,
                                <<row.dwOwningPid, togo[2]>>)
             ELSE IF /\ row.dwLocalAddr = remote.address
                     /\ row.dwRemoteAddr = local.address
                     /\ lp = remote.port /\ rp = local.port
             THEN IF Truthy(togo[1])
                  THEN <<togo[1], row.dwOwningPid>>
                  ELSE PidsTogo(table, r + 1, local, remote,
                                <<togo[1], row.dwOwningPid>>)
             ELSE PidsTogo(table, r + 1, local, remote, togo)

\* windows.getTcpConnectionPids(localPort, remotePort): ret1 and ret2 are
\* what the two calls of GetTcpTable2 return, table is what the second call
\* fills.  The result is <<localPid, remotePid>>, JsNull or Thrown.
GetTcpConnectionPids(localPort, remotePort, ret1, ret2, table) ==
    IF ret1 # ERROR_INSUFFICIENT_BUFFER
    THEN IF ret1 # 0 THEN Thrown ELSE JsNull
    ELSE IF ret2 # 0 THEN Thrown
    ELSE PidsTogo(table, 1,
                  [port |-> Htons(localPort), address |-> Localhost],
                  [port |-> Htons(remotePort), address |-> Localhost],
                  <<Undefined, Undefined>>)

\* windows.getTcpConnectionPids is applied.
GetTcpConnectionPidsCall ==
    Returns("getTcpConnectionPids",
            GetTcpConnectionPids(fnIn[2], fnIn[3], fnIn[4], fnIn[5], fnIn[6]))

\* The table is read, or one of the two calls of GetTcpTable2 fails.
InitTcp ==
    ArgsInit({<<"getTcpConnectionPids", ports[1], ports[2],
                ERROR_INSUFFICIENT_BUFFER, 0, table>> :
                 ports \in PortArgs, table \in TcpTables}
             \cup {<<"getTcpConnectionPids", ports[1], ports[2],
                     rets[1], rets[2], <<>>>> :
                 ports \in PortArgs,
                 rets \in {<<0, 0>>, <<5, 0>>,
                           <<ERROR_INSUFFICIENT_BUFFER,
                             ERROR_INSUFFICIENT_BUFFER>>}})

SpecTcp == InitTcp /\ [][GetTcpConnectionPidsCall]_vars

\* The port in the low 16 bits of a port field: its first byte is the high
\* byte of the port, its second byte the low byte.
PortOfField(field) == ((field % 256) * 256) + ((field \div 256) % 256)

\* The owners of the ESTABLISHED loopback rows of the table from port a to
\* port b.
RowOwners(table, a, b) ==
    {table[i].dwOwningPid : i \in
        {j \in 1..Len(table) :
            /\ table[j].dwState = MIB_TCP_STATE_ESTAB
            /\ table[j].dwLocalAddr = Localhost
            /\ table[j].dwRemoteAddr = Localhost
            /\ PortOfField(table[j].dwLocalPort % 65536) = a
            /\ PortOfField(table[j].dwRemotePort % 65536) = b}}

\* getTcpConnectionPids has read a table and returned.
TableRead ==
    /\ Applied("getTcpConnectionPids")
    /\ fnOut # <<>>
    /\ fnIn[4] = ERROR_INSUFFICIENT_BUFFER
    /\ fnIn[5] = 0

UserEntries ==
    {<<"A", "=", "1">>, <<"B", "=", "2">>, <<"a", "=", "3">>}

\* What windows.getEnv(userToken) returns.
UserEnvs == UNION {[1..n -> UserEntries] : n \in 0..MaxEnvLen}

\* The properties tried: a name the user's environment has, and a new one.
EnvProperties == {<<<<"A">>, <<"9">>>>, <<<<"A">>, <<"8">>>>,
                  <<<<"C">>, <<"9">>>>, <<<<"C">>, <<"8">>>>}

\* The values of options.env tried: objects of up to two properties.
EnvOptions ==
    {<<>>} \cup {<<p>> : p \in EnvProperties}
           \cup {pq \in EnvProperties \X EnvProperties : pq[1][1] # pq[2][1]}

\* env.push(name + "=" + value) for each property of options.env
RECURSIVE PushEnv(_, _)
PushEnv(env, properties) ==
    IF properties = <<>> THEN env
    ELSE PushEnv(Append(env, Head(properties)[1] \o <<"=">> \o Head(properties)[2]),
                 Tail(properties))

\* ipc.execute builds the environment of the child from the user's
\* environment fnIn[2] and options.env fnIn[3].
ExecuteEnvCall == Returns("execute.env", PushEnv(fnIn[2], fnIn[3]))

InitEnv ==
    ArgsInit({<<"execute.env", env, properties>> :
                 env \in UserEnvs, properties \in EnvOptions})

SpecEnv == InitEnv /\ [][ExecuteEnvCall]_vars

\* The entries of a block whose name is none of the names of properties.
NotOverridden(block, properties) ==
    LET Kept(entry) == \A i \in 1..Len(properties) :
                           EntryName(entry) # properties[i][1]
    IN  SelectSeq(block, Kept)

(***************************************************************************)
(* C37                                                                     *)
(***************************************************************************)
\* C37: for every name of options.env, the block made for the child has
\* the entry NAME=VALUE with the caller's value and no other entry of that
\* name; the entries of the user's environment with other names are kept in
\* their order.
C37_EnvOverrides ==
    (Applied("execute.env") /\ fnOut # <<>>) =>
        /\ \A i \in 1..Len(fnIn[3]) :
              /\ \E n \in 1..Len(fnOut[1]) :
                    fnOut[1][n] = fnIn[3][i][1] \o <<"=">> \o fnIn[3][i][2]
              /\ \A n \in 1..Len(fnOut[1]) :
                    EntryName(fnOut[1][n]) = fnIn[3][i][1] =>
                       EntryValue(fnOut[1][n]) = fnIn[3][i][2]
        /\ NotOverridden(fnOut[1], fnIn[3]) = NotOverridden(fnIn[2], fnIn[3])

(***************************************************************************)
(* The environment block as bytes.  Here a string is the sequence of its   *)
(* UTF-16 code units and a Buffer the sequence of its bytes; the NUL       *)
(* character is the code unit 0.                                           *)
(***************************************************************************)
\* The most strings in a list, and the most code units in a string
MaxStrings == 3
MaxUnits == 2

\* The code units tried: "A" (bytes 41 00) and U+0100 (bytes 00 01), so
\* that two zero bytes can meet across two characters.
CodeUnits == {65, 256}

\* The strings tried: not empty, without NUL.
UnitStrings == UNION {[1..n -> CodeUnits] : n \in 1..MaxUnits}

\* The lists tried, the empty one among them.
StringLists == UNION {[1..n -> UnitStrings] : n \in 0..MaxStrings}

\* The encoding "ucs2" of a string: two bytes for each code unit, the low
\* byte first.
RECURSIVE Ucs2(_)
Ucs2(units) ==
    IF units = <<>> THEN <<>>
    ELSE <<Head(units) % 256, Head(units) \div 256>> \o Ucs2(Tail(units))

\* buffer.toString("ucs2") for a buffer of an even number of bytes
FromUcs2(bytes) ==
    [i \in 1..(Len(bytes) \div 2) |-> bytes[2 * i - 1] + 256 * bytes[2 * i]]

\* env.join("\0")
RECURSIVE JoinNul(_)
JoinNul(env) ==
    IF env = <<>> THEN <<>>
    ELSE IF Len(env) = 1 THEN env[1]
    ELSE env[1] \o <<0>> \o JoinNul(Tail(env))

\* A faulty serialisation: the NUL after the last entry is forgotten.
EnvString_Joined(env) == JoinNul(env)

\* var envString = env.join("\0") + "\0"
EnvString(env) == JoinNul(env) \o <<0>>

\* winapi.stringToWideChar as bytes: new Buffer(string + "\u0000", "ucs2")
StringToWideCharBuffer(units) == Ucs2(units \o <<0>>)

\* ref.reinterpretUntilZeros(buffer, 2, offset): the bytes from position
\* pos = offset + 1 up to the first pair of zero bytes, looked for two
\* bytes at a time.  The buffers made here end in such a pair; the scan is
\* cut at the end of the buffer.
RECURSIVE ReinterpretUntilZeros(_, _)
ReinterpretUntilZeros(buffer, pos) ==
    IF pos + 1 > Len(buffer) THEN <<>>
    ELSE IF buffer[pos] = 0 /\ buffer[pos + 1] = 0 THEN <<>>
    ELSE <<buffer[pos], buffer[pos + 1]>> \o ReinterpretUntilZeros(buffer, pos + 2)

\* The do..while loop of winapi.stringFromWideCharArray from `offset` on.
RECURSIVE WideCharArrayFrom(_, _)
WideCharArrayFrom(buffer, offset) ==
    LET current == ReinterpretUntilZeros(buffer, offset + 1)
    IN  IF Len(current) > 0
        THEN <<FromUcs2(current)>>
                \o WideCharArrayFrom(buffer, offset + Len(current) + 2)
        ELSE <<>>

\* winapi.stringFromWideCharArray(buffer)
StringFromWideCharArray(buffer) == WideCharArrayFrom(buffer, 0)

\* ipc.execute serialises the list fnIn[2] and the block is parsed again:
\* <<the block, the list read from it>>.
EnvBlockCall ==
    Returns("envBlock",
            <<StringToWideCharBuffer(EnvString(fnIn[2])),
              StringFromWideCharArray(StringToWideCharBuffer(EnvString(fnIn[2])))>>)

InitBlock == ArgsInit({<<"envBlock", env>> : env \in StringLists})

SpecBlock == InitBlock /\ [][EnvBlockCall]_vars

(***************************************************************************)
(* C38                                                                     *)
(***************************************************************************)
\* C38: the block execute makes of a list of strings (joined by NUL, a NUL
\* after the last, the terminator of the wide string) ends in two NUL
\* characters, and stringFromWideCharArray reads the same list from it, in
\* the same order, for every list of non-empty strings without NUL, the
\* empty list included.
C38_BlockRoundTrip ==
    (Applied("envBlock") /\ fnOut # <<>>) =>
        /\ Len(fnOut[1][1]) >= 4
        /\ \A k \in 0..3 : fnOut[1][1][Len(fnOut[1][1]) - k] = 0
        /\ fnOut[1][2] = fnIn[2]

\* A list of three strings was read back, one of them with a zero byte
\* next to the zero byte of its neighbour.
C38_Witness ==
    /\ Applied("envBlock")
    /\ fnOut # <<>>
    /\ fnIn[2] = << <<65, 256>>, <<256>>, <<65>> >>
    /\ fnOut[1][2] = fnIn[2]
    /\ Len(fnOut[1][1]) = 16

(***************************************************************************)
(* service.module and the event function it gives a module.                *)
(***************************************************************************)
\* The most objects that are made
MaxObjects == 4

\* The events raised and their argument
ModuleEvents == {"start", "stop", "svc-sessionchange", "started-gpii", "connected"}
EventArgs == {"none", "session-logon"}

\* The events gpii-process.js listens for with service.on
ListenedEvents == {"start", "svc-sessionchange"}

\* A faulty lookup: the registry is not asked.
Registered_Never(mods, name) == FALSE

\* var mod = service.modules[name]; if (!mod) ... else it is returned
Registered(mods, name) == mods[name] # NotRegistered

\* The objects the registry holds
ObjectsOf(mods) == {mods[n][1] : n \in {m \in ModuleNames : mods[m] # NotRegistered}}

\* The object mod = initial || {} of a new module: one that is no module yet.
NextObject(mods) ==
    IF ObjectsOf(mods) = {} THEN 1
    ELSE 1 + CHOOSE i \in ObjectsOf(mods) : \A j \in ObjectsOf(mods) : j <= i

\* service.module(name, initial): the registry after the call.
ModuleOf(mods, name) ==
    IF Registered(mods, name) THEN mods
    ELSE [mods EXCEPT ![name] = <<NextObject(mods), name>>]

\* service.module(name, initial) is called, with an object of the caller's
\* or without; fnOut holds the object returned.
ModuleCall(name, initial) ==
    /\ Registered(modules, name) \/ NextObject(modules) <= MaxObjects
    /\ modules' = ModuleOf(modules, name)
    /\ fnIn' = <<"module", name, initial>>
    /\ fnOut' = <<modules'[name][1]>>
    /\ log' = <<>> /\ emitted' = <<>>
    /\ UNCHANGED <<hostVars, ipcVars, connVars, created, startedPids, killed>>

\* mod.event(event, arg1) of the module registered as `name`.
ModuleEvent(name, event, arg1) ==
    /\ modules[name] # NotRegistered
    /\ emitted' = << <<EventName(modules[name][2], event), arg1>> >>
    /\ log' = <<>>
    /\ fnIn' = <<"event", name, event>>
    /\ fnOut' = <<>>
    /\ UNCHANGED <<hostVars, ipcVars, connVars, lifeVars>>

\* service.js as loaded: the service is its own first module.
InitModule ==
    /\ HostInit /\ ~consoleUser /\ pidFile = Absent /\ externals = {}
    /\ IpcInit
    /\ ConnInit
    /\ created = {} /\ startedPids = {} /\ killed = {}
    /\ modules = ServiceLoaded
    /\ fnIn = <<>>
    /\ fnOut = <<>>

NextModule ==
    \/ \E name \in ModuleNames, initial \in BOOLEAN : ModuleCall(name, initial)
    \/ \E name \in ModuleNames, event \in ModuleEvents, arg1 \in EventArgs :
          ModuleEvent(name, event, arg1)

SpecModule == InitModule /\ [][NextModule]_vars

\* service.module(name) has just been called.
ModuleStep(name) == fnIn' # fnIn /\ Len(fnIn') = 3 /\ fnIn'[1] = "module" /\ fnIn'[2] = name

\* The module `name` has just raised `event`.
EventStep(name, event) ==
    /\ modules[name] # NotRegistered
    /\ Len(fnIn') = 3 /\ fnIn'[1] = "event" /\ fnIn'[2] = name /\ fnIn'[3] = event
    /\ emitted' # <<>>

(***************************************************************************)
(* C39                                                                     *)
(***************************************************************************)
\* C39: service.module(name) registers a name once: the first call gives an
\* object that is no module yet, every later call gives that same object
\* and leaves the registry as it is, and no call touches another name.  A
\* module other than the service emits its events as <module name>.<event>,
\* the service emits them under the bare name, so that what is emitted as
\* start or svc-sessionchange is exactly those events of the service.
C39_ModuleOnceAndEventNames ==
    [][/\ \A name \in ModuleNames :
            ModuleStep(name) =>
               /\ \A other \in ModuleNames \ {name} : modules'[other] = modules[other]
               /\ fnOut' = <<modules'[name][1]>>
               /\ IF modules[name] # NotRegistered
                  THEN modules'[name] = modules[name]
                  ELSE modules'[name][1] \notin ObjectsOf(modules)
       /\ \A name \in ModuleNames, event \in ModuleEvents :
            EventStep(name, event) =>
               /\ Len(emitted') = 1
               /\ emitted'[1][1] = (IF name = "service" THEN event
                                    ELSE name \o "." \o event)
               /\ (emitted'[1][1] \in ListenedEvents) <=>
                     (name = "service" /\ event \in ListenedEvents)
               /\ modules' = modules]_vars

\* gpiiProcess, registered before gpiiConnection, was asked for again and
\* the object of its registration was returned.
C39_Witness ==
    /\ fnIn = <<"module", "gpiiProcess", FALSE>>
    /\ modules["gpiiProcess"] # NotRegistered
    /\ modules["gpiiConnection"] # NotRegistered
    /\ modules["gpiiProcess"][1] < modules["gpiiConnection"][1]
    /\ fnOut = <<modules["gpiiProcess"][1]>>

====
